---- MODULE Spec2Model ----
(***************************************************************************)
(* Model of the weebcentral-dl synchronisation pipeline:                   *)
(*   - WeebCentralDownloader (downloader.py): download_image,              *)
(*     download_chapters, archive_chapter, process_manga, cover download   *)
(*   - utils.py: get_vol_and_chapter_names, has_images                     *)
(*   - cli.py: parse_chapter_arg, process_bulk_mode                        *)
(*   - manga_utils.py / remove_duplicates.py: the duplicate-folder curator *)
(*                                                                         *)
(* Strings are sequences of one-character strings, so that parsing,        *)
(* formatting and pattern matching are computed as the code computes them. *)
(* Chapter numbers read by float() are fixed-point integers scaled by      *)
(* Scale (FracDigits decimal digits).                                      *)
(***************************************************************************)
EXTENDS Integers, Sequences, FiniteSets, TLC

VARIABLES
    \* ---- fetch engine: download_image jobs of one chapter ----
    max_retries,      \* config.max_retries
    sequence,         \* config.sequence
    job,              \* job id -> [st, retry_count, attempts, sleeps, err, onlyTransient, client]
    scraper,          \* generation of self.scraper (rebound on transient errors)
    run,              \* position of the chapter loop of download_chapters
    \* ---- process_manga / download_chapters on one series folder ----
    cfg,              \* [zip, latest, selector]
    chapters,         \* remote chapter list as fetch_chapter_list returns it
    dirExists,        \* os.path.exists(out_dir)
    files,            \* os.listdir(out_dir): set of file names
    pm,               \* position and locals of process_manga / download_chapters
    \* ---- remove-duplicates pass over an archive root ----
    root,             \* listdir position -> [name, cover, mtime, arch, alive]
    dd,               \* position and locals of remove_duplicates_command
    \* ---- bulk mode ----
    bulk,             \* position and locals of process_bulk_mode
    \* ---- archive naming and title sanitisation, applied to one input ----
    nm,               \* chapter number, archive name written, latest detected
    sz,               \* title, sanitize_title of it, sanitize_title of that
    \* ---- resolution of a free-text query ----
    qr,               \* search response, not_found.log, the series resolved
    \* ---- watcher (docker mode) ----
    wt,               \* files' mtimes, handlers' last_modified, events, runs
    \* ---- add-covers and rename-english over an archive root ----
    lib,              \* listdir position -> [name, cover, arch]
    mt,               \* position and locals of the command
    \* ---- destination paths, the legacy download_image, the series folder ----
    dest,             \* image URLs of a chapter, their jobs, the chapter folder
    lg,               \* position and locals of download_image of main.py
    ttl               \* title or id given to process_manga, series_title, out_dir

vars == <<max_retries, sequence, job, scraper, run, cfg, chapters, dirExists, files, pm, root, dd, bulk, nm, sz, qr, wt, lib, mt, dest, lg, ttl>>

fetchVars == <<max_retries, sequence, job, scraper, run>>
syncVars == <<cfg, chapters, dirExists, files, pm>>
dedupVars == <<root, dd>>
bulkVars == <<bulk>>
toolVars == <<nm, sz, qr, wt, lib, mt>>
pathVars == <<dest, lg, ttl>>

----------------------------------------------------------------------------
(* Bounds of the model                                                     *)

FracDigits == 2
MaxRetriesBound == 3
MaxJobs == 2
MaxChapters == 2
MaxImages == 2
MaxFiles == 2
MaxRlc == 2
MaxFolders == 2
MaxBulk == 3
MaxTitleLen == 3
MaxResults == 3
MaxMtime == 4
MaxArchives == 2
MaxCurated == 2
MaxLegacyRequests == 8
MaxH1Len == 2

----------------------------------------------------------------------------
(* Character-level helpers                                                 *)

Digits == <<"0", "1", "2", "3", "4", "5", "6", "7", "8", "9">>

DigitChars == {Digits[i] : i \in 1..10}

UpperChars == {"A", "B", "C", "D", "E", "F", "G", "H", "I", "J", "K", "L", "M",
               "N", "O", "P", "Q", "R", "S", "T", "U", "V", "W", "X", "Y", "Z"}

UpperSeq == <<"A", "B", "C", "D", "E", "F", "G", "H", "I", "J", "K", "L", "M",
              "N", "O", "P", "Q", "R", "S", "T", "U", "V", "W", "X", "Y", "Z">>

LowerSeq == <<"a", "b", "c", "d", "e", "f", "g", "h", "i", "j", "k", "l", "m",
              "n", "o", "p", "q", "r", "s", "t", "u", "v", "w", "x", "y", "z">>

\* str.lower()
Lower(s) ==
    [i \in 1..Len(s) |->
        IF s[i] \in UpperChars
        THEN LowerSeq[CHOOSE k \in 1..26 : UpperSeq[k] = s[i]]
        ELSE s[i]]

DigitVal(c) == (CHOOSE i \in 1..10 : Digits[i] = c) - 1

IsDigits(s) == Len(s) > 0 /\ \A i \in 1..Len(s) : s[i] \in DigitChars

StartsWith(s, p) == Len(s) >= Len(p) /\ SubSeq(s, 1, Len(p)) = p

EndsWith(s, p) == Len(s) >= Len(p) /\ SubSeq(s, Len(s) - Len(p) + 1, Len(s)) = p

Contains(s, c) == \E i \in 1..Len(s) : s[i] = c

FirstIndex(s, c) == CHOOSE i \in 1..Len(s) : s[i] = c /\ \A k \in 1..(i - 1) : s[k] # c

LastIndex(s, c) == CHOOSE i \in 1..Len(s) : s[i] = c /\ \A k \in (i + 1)..Len(s) : s[k] # c

RECURSIVE Pow10(_)
Pow10(n) == IF n = 0 THEN 1 ELSE 10 * Pow10(n - 1)

Scale == Pow10(FracDigits)

RECURSIVE StrToInt(_)
StrToInt(s) ==
    IF Len(s) = 0 THEN 0
    ELSE 10 * StrToInt(SubSeq(s, 1, Len(s) - 1)) + DigitVal(s[Len(s)])

RECURSIVE IntToStr(_)
IntToStr(n) ==
    IF n < 10 THEN <<Digits[n + 1]>>
    ELSE Append(IntToStr(n \div 10), Digits[(n % 10) + 1])

RECURSIVE RStripChar(_, _)
RStripChar(s, c) ==
    IF Len(s) > 0 /\ s[Len(s)] = c THEN RStripChar(SubSeq(s, 1, Len(s) - 1), c) ELSE s

RECURSIVE LStripChar(_, _)
LStripChar(s, c) ==
    IF Len(s) > 0 /\ s[1] = c THEN LStripChar(Tail(s), c) ELSE s

RECURSIVE PadLeft(_, _, _)
PadLeft(s, c, n) == IF Len(s) >= n THEN s ELSE PadLeft(<<c>> \o s, c, n)

\* float(s) as a fixed-point integer (value * Scale); fraction digits beyond
\* FracDigits are outside the model's inputs.
Float(s) ==
    IF Contains(s, ".")
    THEN LET d == FirstIndex(s, ".")
             ip == SubSeq(s, 1, d - 1)
             fp == SubSeq(s, d + 1, Len(s))
         IN  StrToInt(ip) * Scale + StrToInt(fp) * Pow10(FracDigits - Len(fp))
    ELSE StrToInt(s) * Scale

\* str(x) of a float x: shortest decimal with at least one fraction digit.
StrFloat(v) ==
    LET fr == RStripChar(PadLeft(IntToStr(v % Scale), "0", FracDigits), "0")
    IN  IntToStr(v \div Scale) \o <<".">> \o (IF fr = <<>> THEN <<"0">> ELSE fr)

\* int(float(s))
IntFloat(s) == Float(s) \div Scale

----------------------------------------------------------------------------
(* String literals                                                         *)

S_vol == <<"v", "o", "l", "_">>
S_chapter == <<"c", "h", "a", "p", "t", "e", "r", "_">>
S_zip == <<".", "z", "i", "p">>
S_cbz == <<".", "c", "b", "z">>
S_jpg == <<".", "j", "p", "g">>
S_webp == <<".", "w", "e", "b", "p">>
S_Chapter == <<"C", "h", "a", "p", "t", "e", "r">>
S_Episode == <<"E", "p", "i", "s", "o", "d", "e">>
S_Hash == <<"#">>

\* the sanitized series title naming the output folder and the .cbz files
SeriesTitle == <<"O", "p">>

----------------------------------------------------------------------------
(* utils.py                                                                *)

\* get_vol_and_chapter_names(chap_num): the pair is built from one stem
VolChapterStem(chap_num) ==
    LET base == IntFloat(chap_num)
        dec == IF Contains(chap_num, ".")
               THEN SubSeq(chap_num, LastIndex(chap_num, ".") + 1, Len(chap_num))
               ELSE <<"0">>
    IN  IF Contains(chap_num, ".") /\ dec # <<"0">>
        THEN IntToStr(base) \o <<"-">> \o dec
        ELSE PadLeft(IntToStr(base), "0", 3)

get_vol_and_chapter_names(chap_num) ==
    <<S_vol \o VolChapterStem(chap_num), S_chapter \o VolChapterStem(chap_num)>>

----------------------------------------------------------------------------
(* downloader.py: archive names and their detectors                        *)

\* f reads "vol_<middle>.zip"
IsVolZip(f) ==
    Len(f) >= Len(S_vol) + Len(S_zip) /\ StartsWith(f, S_vol) /\ EndsWith(f, S_zip)

VolMiddle(f) == SubSeq(f, Len(S_vol) + 1, Len(f) - Len(S_zip))

\* chapter_already_downloaded: fullmatch of vol_0*{base}(?:-[0-9]+)?\.zip$
AlreadyPatternMatches(base, f) ==
    LET mid == VolMiddle(f) IN
    /\ IsVolZip(f)
    /\ LET hasDash == Contains(mid, "-")
           front == IF hasDash THEN SubSeq(mid, 1, FirstIndex(mid, "-") - 1) ELSE mid
           rest == IF hasDash THEN SubSeq(mid, FirstIndex(mid, "-") + 1, Len(mid)) ELSE <<>>
           b == IntToStr(base)
       IN  /\ hasDash => IsDigits(rest)
           /\ EndsWith(front, b)
           /\ \A i \in 1..(Len(front) - Len(b)) : front[i] = "0"

chapter_already_downloaded(chap_num, exists, listing) ==
    /\ exists
    /\ \E f \in listing : AlreadyPatternMatches(IntFloat(chap_num), f)

\* group 1 of 0*(\d+): the digits after the leading zeros, at least one digit
StripLeadingZeros(d) ==
    LET t == LStripChar(d, "0") IN IF t = <<>> THEN <<"0">> ELSE t

\* the maximal run of digits at the start of s
RECURSIVE DigitPrefix(_)
DigitPrefix(s) ==
    IF Len(s) > 0 /\ s[1] \in DigitChars THEN <<s[1]>> \o DigitPrefix(Tail(s)) ELSE <<>>

\* pattern vol_0*(\d+)(?:-(\d+))?\.zip$ : the set of float values it yields for f
VolZipValues(f) ==
    LET mid == VolMiddle(f) IN
    IF ~IsVolZip(f) THEN {}
    ELSE IF Contains(mid, "-")
         THEN LET g1 == SubSeq(mid, 1, FirstIndex(mid, "-") - 1)
                  g2 == SubSeq(mid, FirstIndex(mid, "-") + 1, Len(mid))
              IN  IF IsDigits(g1) /\ IsDigits(g2)
                  THEN {Float(StripLeadingZeros(g1) \o <<".">> \o g2)}
                  ELSE {}
         ELSE IF IsDigits(mid) THEN {Float(StripLeadingZeros(mid))} ELSE {}

\* pattern {series_title}-(\d+)(?:\.(\d+))?.*\.cbz$ : the values it yields for f
CbzValues(series_title, f) ==
    LET pre == series_title \o <<"-">> IN
    IF ~(StartsWith(f, pre) /\ EndsWith(f, S_cbz)) THEN {}
    ELSE LET r == SubSeq(f, Len(pre) + 1, Len(f))
             g1 == DigitPrefix(r)
             after == SubSeq(r, Len(g1) + 1, Len(r))
             g2 == IF Len(after) > 0 /\ after[1] = "."
                   THEN DigitPrefix(Tail(after)) ELSE <<>>
         IN  IF g1 = <<>> \/ ~EndsWith(after, S_cbz) THEN {}
             ELSE IF g2 # <<>> THEN {Float(g1 \o <<".">> \o g2)} ELSE {Float(g1)}

SetMax(S) == CHOOSE x \in S : \A y \in S : y <= x

\* get_latest_downloaded_chapter returning None
NoLatest == -1

get_latest_downloaded_chapter_none(series_title, exists, listing) == NoLatest

\* get_latest_downloaded_chapter: None, or the maximum of the parsed numbers
get_latest_downloaded_chapter(series_title, exists, listing) ==
    LET chapter_nums == UNION {VolZipValues(f) \cup CbzValues(series_title, f) : f \in listing}
    IN  IF ~exists \/ chapter_nums = {} THEN NoLatest ELSE SetMax(chapter_nums)

\* the archive file name archive_chapter writes
ArchiveName(zipMode, series_title, chapter_num, chapter_type) ==
    IF zipMode
    THEN get_vol_and_chapter_names(chapter_num)[1] \o S_zip
    ELSE series_title \o <<"-">> \o chapter_num
         \o (IF chapter_type # <<>> THEN <<"-">> \o chapter_type ELSE <<>>) \o S_cbz

\* download_chapters: the number as it is looked up in chapters_to_download
ChapNumStr(chap_num) ==
    IF Contains(chap_num, ".")
    THEN RStripChar(RStripChar(StrFloat(Float(chap_num)), "0"), ".")
    ELSE chap_num

\* download_chapters: the type suffix ct
TypeSuffix(chap_type) == IF chap_type \in {S_Chapter, S_Hash} THEN <<>> ELSE chap_type

----------------------------------------------------------------------------
(* Values of the variables of a component that is not running              *)

FetchIdle ==
    /\ max_retries = 0 /\ sequence = FALSE /\ job = <<>> /\ scraper = 0
    /\ run = [phase |-> "idle"]

SyncIdle ==
    /\ cfg = [zip |-> FALSE, latest |-> FALSE, chapters |-> <<>>, rlc |-> 1]
    /\ chapters = <<>>
    /\ dirExists = FALSE
    /\ files = {}
    /\ pm = [pc |-> "idle"]

DedupIdle == root = <<>> /\ dd = [pc |-> "idle"]

BulkIdle == bulk = [pc |-> "idle"]

NamingIdle == nm = [pc |-> "idle"]

SanitizeIdle == sz = [pc |-> "idle"]

QueryIdle == qr = [pc |-> "idle"]

WatchIdle == wt = [pc |-> "idle"]

CurateIdle == lib = <<>> /\ mt = [pc |-> "idle"]

DestIdle == dest = [pc |-> "idle"]

LegacyIdle == lg = [pc |-> "idle"]

TitleIdle == ttl = [pc |-> "idle"]

PathIdle == DestIdle /\ LegacyIdle /\ TitleIdle

ToolsIdle == NamingIdle /\ SanitizeIdle /\ QueryIdle /\ WatchIdle /\ CurateIdle

----------------------------------------------------------------------------
(* Fetch engine: the chapter loop of download_chapters, with              *)
(* download_chapter_images running download_image for the image URLs of    *)
(* the chapter, archive_chapter, and the finally clause that removes the   *)
(* temporary directory                                                     *)

Jobs == DOMAIN job

Terminal(j) == job[j].st \in {"succeeded", "failed"}

\* errors whose text contains 'beacon', 'connection refused' or
\* 'max retries exceeded' are "transient"; every other exception is "other"
Outcomes == {"ok", "transient", "other"}

\* what the chapter page yields: the request raises, no image URL is found,
\* or some image URLs
Pages == {"raises", "noimages", "images"}

FetchInit ==
    /\ max_retries \in 0..MaxRetriesBound
    /\ sequence \in BOOLEAN
    /\ job = <<>>
    /\ scraper = 1
    /\ \E n \in 1..MaxChapters :
         run = [phase |-> "loop", n |-> n, k |-> 0, tmp |-> {}, exc |-> "none",
                archive |-> "none", leftRunning |-> FALSE]

\* the test on the error text in download_image
IsTransient_any(outcome) == outcome # "ok"

IsTransient(outcome) == outcome = "transient"

\* the loop condition of download_image
RetryLoopGuard_off(retry_count, limit) == retry_count <= limit

RetryLoopGuard(retry_count, limit) == retry_count < limit

\* download_chapter_images: a worker of the pool takes the job at once; in
\* sequence mode the call is made when the calls before it have returned
MayRun_afterSuccess(j) == sequence => \A k \in Jobs : k < j => job[k].st = "succeeded"

MayRun(j) == sequence => \A k \in Jobs : k < j => Terminal(k)

\* concurrent.futures.wait(futures) and the exit of the executor's with
\* block (or the end of the for loop in sequence mode): every call returned
AllJobsDone_early(jobs) == TRUE

AllJobsDone(jobs) == \A j \in DOMAIN jobs : jobs[j].st \in {"succeeded", "failed"}

\* finally: if os.path.exists(temp_dir): shutil.rmtree(temp_dir)
FinallyRemoves_onSuccess(tmp, k, exc) == IF exc = "none" THEN tmp \ {k} ELSE tmp

FinallyRemoves(tmp, k, exc) == tmp \ {k}

\* the next chapter of the loop: tempfile.mkdtemp, then the head of
\* download_chapter_images (chapter page request, image URLs, jobs submitted)
StartChapter(page, count) ==
    /\ run.phase = "loop"
    /\ run.k < run.n
    /\ LET base == [run EXCEPT !.k = @ + 1, !.tmp = @ \cup {run.k + 1},
                               !.archive = "none",
                               !.leftRunning = \E j \in Jobs : job[j].st = "inflight"]
       IN  CASE page = "raises" ->
                  /\ run' = [base EXCEPT !.phase = "finally", !.exc = "error"]
                  /\ job' = <<>>
             [] page = "noimages" ->
                  /\ run' = [base EXCEPT !.phase = "finally"]
                  /\ job' = <<>>
             [] OTHER ->
                  /\ run' = [base EXCEPT !.phase = "download"]
                  /\ job' = [j \in 1..count |->
                               [st |-> "pending", retry_count |-> 0, attempts |-> 0,
                                sleeps |-> 0, err |-> "none", onlyTransient |-> TRUE,
                                client |-> 0, chap |-> run.k + 1]]
    /\ UNCHANGED <<max_retries, sequence, scraper, syncVars, dedupVars, bulkVars, pathVars, toolVars>>

\* one pass of the while loop up to the request: self.scraper.get(...)
BeginRequest(j) ==
    /\ run.phase = "download"
    /\ job[j].st \in {"pending", "retrying"}
    /\ MayRun(j)
    /\ RetryLoopGuard(job[j].retry_count, max_retries)
    /\ job' = [job EXCEPT ![j].st = "inflight",
                          ![j].attempts = @ + 1,
                          ![j].client = scraper]
    /\ UNCHANGED <<max_retries, sequence, scraper, run, syncVars, dedupVars, bulkVars, pathVars, toolVars>>

\* the request returns or raises
EndRequest(j, outcome) ==
    /\ job[j].st = "inflight"
    /\ CASE outcome = "ok" ->
              /\ job' = [job EXCEPT ![j].st = "succeeded", ![j].onlyTransient = FALSE,
                                    ![j].client = 0]
              /\ UNCHANGED scraper
         [] outcome # "ok" /\ IsTransient(outcome) ->
              \* time.sleep; self.scraper = create_scraper(); retry_count += 1
              /\ job' = [job EXCEPT ![j].st = "retrying", ![j].retry_count = @ + 1,
                                    ![j].sleeps = @ + 1, ![j].err = outcome,
                                    ![j].client = 0]
              /\ scraper' = scraper + 1
         [] OTHER ->
              \* break
              /\ job' = [job EXCEPT ![j].st = "failed", ![j].onlyTransient = FALSE,
                                    ![j].err = outcome, ![j].client = 0]
              /\ UNCHANGED scraper
    /\ UNCHANGED <<max_retries, sequence, run, syncVars, dedupVars, bulkVars, pathVars, toolVars>>

\* the loop condition fails: "[FAIL] Giving up", return None
GiveUp(j) ==
    /\ run.phase = "download"
    /\ job[j].st \in {"pending", "retrying"}
    /\ MayRun(j)
    /\ ~RetryLoopGuard(job[j].retry_count, max_retries)
    /\ job' = [job EXCEPT ![j].st = "failed"]
    /\ UNCHANGED <<max_retries, sequence, scraper, run, syncVars, dedupVars, bulkVars, pathVars, toolVars>>

\* KeyboardInterrupt in the main thread during download_chapter_images. In
\* sequence mode it is raised inside the download_image call under way, which
\* is abandoned with the calls not yet made; in parallel mode it is raised in
\* wait(), and the exit of the with block still joins the workers.
Interrupt ==
    /\ run.phase = "download"
    /\ run.exc = "none"
    /\ ~AllJobsDone(job)
    /\ run' = [run EXCEPT !.exc = "interrupt"]
    /\ job' = IF sequence
              THEN [j \in Jobs |-> IF Terminal(j) THEN job[j]
                                   ELSE [job[j] EXCEPT !.st = "abandoned", !.client = 0]]
              ELSE job
    /\ UNCHANGED <<max_retries, sequence, scraper, syncVars, dedupVars, bulkVars, pathVars, toolVars>>

\* download_chapter_images returns chapter_dir (or the exception propagates)
JoinJobs ==
    /\ run.phase = "download"
    /\ \/ AllJobsDone(job)
       \/ sequence /\ run.exc # "none"
    /\ run' = [run EXCEPT !.phase = IF run.exc = "none" THEN "archive" ELSE "finally"]
    /\ UNCHANGED <<max_retries, sequence, job, scraper, syncVars, dedupVars, bulkVars, pathVars, toolVars>>

\* archive_chapter: nothing written when the chapter directory holds no image,
\* else the archive is written, or writing it raises. A job that succeeded
\* left an image; a job that failed after a request may have left a partial one.
ArchiveResults ==
    IF \E j \in Jobs : job[j].st = "succeeded" THEN {"written", "error"}
    ELSE IF \E j \in Jobs : job[j].attempts > 0 THEN {"written", "error", "noimages"}
    ELSE {"noimages"}

ArchiveChapter(result) ==
    /\ run.phase = "archive"
    /\ result \in ArchiveResults
    /\ run' = [run EXCEPT !.phase = "finally", !.archive = result,
                          !.exc = IF result = "error" THEN "error" ELSE @]
    /\ UNCHANGED <<max_retries, sequence, job, scraper, syncVars, dedupVars, bulkVars, pathVars, toolVars>>

\* the finally clause; an exception then leaves download_chapters
Finally ==
    /\ run.phase = "finally"
    /\ run' = [run EXCEPT !.tmp = FinallyRemoves(run.tmp, run.k, run.exc),
                          !.phase = IF run.exc = "none" THEN "loop" ELSE "raised"]
    /\ UNCHANGED <<max_retries, sequence, job, scraper, syncVars, dedupVars, bulkVars, pathVars, toolVars>>

\* the for loop is exhausted
EndLoop ==
    /\ run.phase = "loop"
    /\ run.k = run.n
    /\ run' = [run EXCEPT !.phase = "done"]
    /\ UNCHANGED <<max_retries, sequence, job, scraper, syncVars, dedupVars, bulkVars, pathVars, toolVars>>

InitFetch == FetchInit /\ SyncIdle /\ DedupIdle /\ BulkIdle /\ PathIdle /\ ToolsIdle

NextFetch ==
    \/ \E page \in Pages, count \in 1..MaxJobs : StartChapter(page, count)
    \/ \E j \in Jobs : BeginRequest(j)
    \/ \E j \in Jobs, outcome \in Outcomes : EndRequest(j, outcome)
    \/ \E j \in Jobs : GiveUp(j)
    \/ Interrupt
    \/ JoinJobs
    \/ \E result \in {"written", "error", "noimages"} : ArchiveChapter(result)
    \/ Finally
    \/ EndLoop

SpecFetch == InitFetch /\ [][NextFetch]_vars

\* C1: a job whose every attempt raised a transient-network error makes
\* exactly max_retries requests before it is abandoned: it is never abandoned
\* with fewer, and never makes more, whatever its sibling jobs do.
C1_RetryBound ==
    \A j \in Jobs :
        job[j].onlyTransient =>
            /\ job[j].attempts <= max_retries
            /\ job[j].st = "failed" => job[j].attempts = max_retries

C1_Witness ==
    \E j, k \in Jobs :
        /\ max_retries >= 2
        /\ job[j].st = "failed" /\ job[j].onlyTransient /\ job[j].attempts = max_retries
        /\ job[k].st = "succeeded" /\ job[k].attempts = 1

\* C12: the temporary directory made for a chapter is gone once that
\* chapter's processing is left, on every exit path (archive written, no
\* image found, archive error, exception or interrupt during the download):
\* none exists when the next chapter begins or when the run has ended.
C12_TempDirRemoved ==
    run.phase \in {"loop", "done", "raised"} => run.tmp = {}

C12_Witness ==
    /\ run.phase = "raised" /\ run.exc = "interrupt"
    /\ run.k = 2 /\ run.tmp = {}
    /\ \E j \in Jobs : job[j].attempts > 0

\* C18: in parallel mode self.scraper is never rebound while a request of
\* another job of the chapter is under way: every request in flight was made
\* with the client that is current.
C18_ClientNotReboundInFlight ==
    ~sequence => \A j \in Jobs : job[j].st = "inflight" => job[j].client = scraper

\* C19: an exception outside the transient class ends the job as Failed at
\* once: the step that handles it increments no retry counter, takes no sleep,
\* leaves the client as it is, and the job makes no request afterwards.
C19_NonTransientFailsAtOnce ==
    [][\A j \in Jobs :
         (j \in DOMAIN job' /\ job'[j].chap = job[j].chap) =>
            /\ (job[j].st = "inflight" /\ job'[j].st # "inflight" /\ job'[j].err = "other") =>
                  /\ job'[j].st = "failed"
                  /\ job'[j].retry_count = job[j].retry_count
                  /\ job'[j].sleeps = job[j].sleeps
                  /\ job'[j].attempts = job[j].attempts
                  /\ scraper' = scraper
            /\ (job[j].st = "failed" /\ job[j].err = "other") => job'[j] = job[j]]_vars

C19_Witness ==
    \E j \in Jobs :
        /\ max_retries >= 2
        /\ job[j].st = "failed" /\ job[j].err = "other"
        /\ job[j].attempts = 1 /\ job[j].sleeps = 0 /\ job[j].retry_count = 0
        /\ scraper = 1

\* C20: archive_chapter starts only when every job of the chapter is
\* Succeeded or Failed, and a request is under way only during the download
\* of the current chapter: no job of the next chapter starts before the
\* archive step and the removal of the temporary directory are over, and no
\* job of a chapter is still running when the next chapter starts.
C20_ArchiveAfterAllJobs ==
    /\ run.phase = "archive" => \A j \in Jobs : Terminal(j)
    /\ \A j \in Jobs :
         job[j].st = "inflight" => run.phase = "download" /\ job[j].chap = run.k
    /\ run.phase # "idle" => ~run.leftRunning

C20_Witness ==
    /\ ~sequence /\ run.phase = "archive" /\ run.k = 2
    /\ \E j, k \in Jobs :
         /\ job[j].st = "failed" /\ job[j].attempts >= 2
         /\ job[k].st = "succeeded"

\* Scheduling of one chapter: a worker thread (or the loop of sequence mode)
\* goes on with each call of download_image, a request returns or raises
\* (timeout=15), and the main thread goes on once the calls have returned.
\* Nothing obliges the user to interrupt or the loop to hold more chapters.
FetchFairness ==
    /\ \A j \in 1..MaxJobs :
          /\ WF_vars(j \in Jobs /\ BeginRequest(j))
          /\ WF_vars(j \in Jobs /\ GiveUp(j))
          /\ WF_vars(j \in Jobs /\ \E outcome \in Outcomes : EndRequest(j, outcome))
    /\ WF_vars(JoinJobs)
    /\ WF_vars(\E result \in {"written", "error", "noimages"} : ArchiveChapter(result))
    /\ WF_vars(Finally)

SpecFetchFair == SpecFetch /\ FetchFairness

\* C21: a job that ends Failed neither aborts its chapter nor blocks its
\* siblings: unless the user interrupts, every job of the chapter ends
\* Succeeded or Failed and the archive step of that chapter is reached; and
\* when a job of the chapter succeeded, the archive step does not take its
\* "no images" exit, beside however many failed siblings.
C21_FailedJobDoesNotBlock ==
    /\ \A c \in 1..MaxChapters :
          [](  (run.phase = "download" /\ run.k = c /\ run.exc = "none"
                  /\ \E j \in Jobs : job[j].st = "failed")
            => <>(\/ run.k = c /\ run.phase = "archive" /\ AllJobsDone(job)
                  \/ run.exc = "interrupt"))
    /\ []((/\ run.phase = "finally" /\ run.exc # "interrupt"
           /\ \E j, k \in Jobs : job[j].st = "failed" /\ job[k].st = "succeeded")
             => run.archive \in {"written", "error"})

C21_Witness ==
    /\ sequence /\ run.phase = "finally" /\ run.archive = "written"
    /\ \E j, k \in Jobs :
         /\ j < k
         /\ job[j].st = "failed" /\ job[j].err = "other"
         /\ job[k].st = "succeeded"

----------------------------------------------------------------------------
(* cli.py: parse_chapter_arg                                               *)

\* str.strip() of blanks
Strip(s) == RStripChar(LStripChar(s, " "), " ")

\* str.split(","): the set of the parts
RECURSIVE SplitComma(_)
SplitComma(s) ==
    IF Contains(s, ",")
    THEN {SubSeq(s, 1, FirstIndex(s, ",") - 1)}
         \cup SplitComma(SubSeq(s, FirstIndex(s, ",") + 1, Len(s)))
    ELSE {s}

\* chapters_to_download: None (all |-> TRUE) or a set of strings
NoSelection == [all |-> TRUE, set |-> {}]

parse_chapter_arg(chapter_arg) ==
    IF chapter_arg = <<>> THEN NoSelection
    ELSE [all |-> FALSE,
          set |-> {Strip(q) : q \in {r \in SplitComma(chapter_arg) : Strip(r) # <<>>}}]

----------------------------------------------------------------------------
(* Inputs of a process_manga run                                           *)

\* remote chapter entries (type, number, id) a chapter list is drawn from
ChapterPool ==
    { <<S_Chapter, <<"1", "1">>, <<"A">> >>,
      <<S_Chapter, <<"1", "2">>, <<"B">> >>,
      <<S_Chapter, <<"1", "2", ".", "5">>, <<"C">> >>,
      <<S_Chapter, <<"1", "2", ".", "5", "0">>, <<"D">> >>,
      <<S_Episode, <<"1", "3">>, <<"E">> >>,
      <<S_Chapter, <<"1", "3", ".", "0">>, <<"F">> >> }

\* values of the -c option; <<>> is "not given"
ChapterArgPool ==
    { <<>>,
      <<"1", "2", ",", "1", "2", ".", "5", ",", "1", "3">>,
      <<"1", "2", ".", "0", ",", " ", "1", "3", ",">> }

CoverStem == <<"c", "v">>

\* files a series folder may hold before the run
FilePool ==
    { S_vol \o <<"0", "1", "2">> \o S_zip,
      S_vol \o <<"1", "2", "-", "5">> \o S_zip,
      SeriesTitle \o <<"-", "1", "2">> \o S_cbz,
      CoverStem \o S_jpg }

\* fetch_chapter_list sorts by float(number), descending
SortedDescending(cs) ==
    \A i, k \in 1..Len(cs) : i < k => Float(cs[i][2]) >= Float(cs[k][2])

ChapterLists ==
    { cs \in UNION {[1..n -> ChapterPool] : n \in 0..MaxChapters} :
        /\ \A i, k \in 1..Len(cs) : i # k => cs[i] # cs[k]
        /\ SortedDescending(cs) }

----------------------------------------------------------------------------
(* downloader.py: process_manga, download_cover_image, download_chapters   *)

ImageExts ==
    { S_jpg, <<".", "j", "p", "e", "g">>, <<".", "p", "n", "g">>, S_webp,
      <<".", "b", "m", "p">>, <<".", "g", "i", "f">> }

\* utils.has_images on the listing of the chapter folder
has_images(listing) == \E f \in listing : \E ext \in ImageExts : EndsWith(Lower(f), ext)

\* download_cover_image[_and_convert]: the folder states it can leave.
\*   "none"     the page request raises, or the page names no cover
\*   "failed"   makedirs, then download_image returns None without a file
\*   "partial"  makedirs, download_image fails after opening the file
\*   "jpg"      the cover is written (a .webp cover converted to .jpg)
\*   "webp"     a .webp cover is written and its conversion fails
CoverOutcomes(exists, listing) ==
    IF exists /\ \E f \in listing : EndsWith(Lower(f), S_jpg)
    THEN {"skip"}
    ELSE {"none", "failed", "partial", "jpg", "webp"}

CoverDir(outcome, exists) == IF outcome \in {"skip", "none"} THEN exists ELSE TRUE

CoverFiles(outcome, listing) ==
    CASE outcome \in {"skip", "none", "failed"} -> listing
      [] outcome = "jpg" -> listing \cup {CoverStem \o S_jpg}
      [] outcome \in {"webp", "partial"} -> listing \cup {CoverStem \o S_webp}

\* is_fresh = not os.path.exists(out_dir) or not os.listdir(out_dir)
IsFresh(exists, listing) == ~exists \/ listing = {}

\* the planning step of process_manga (LATEST_ONLY when no explicit selection)
PlanLatest(cs, latest) ==
    IF latest = NoLatest
    THEN [all |-> FALSE, set |-> {cs[i][2] : i \in 1..Len(cs)}]
    ELSE [all |-> FALSE, set |-> {cs[i][2] : i \in {k \in 1..Len(cs) : Float(cs[k][2]) > latest}}]

\* download_chapters: the filter on chapters_to_download
Planned(plan, chap_num) == plan.all \/ ChapNumStr(chap_num) \in plan.set

SyncInit ==
    /\ \E z \in BOOLEAN, l \in BOOLEAN, a \in ChapterArgPool, r \in 1..MaxRlc :
         cfg = [zip |-> z, latest |-> l, chapters |-> a, rlc |-> r]
    /\ chapters \in ChapterLists
    /\ dirExists \in BOOLEAN
    /\ files \in {F \in SUBSET FilePool : Cardinality(F) <= MaxFiles /\ (~dirExists => F = {})}
    /\ pm = [pc |-> "start", runNo |-> 1, prev |-> <<>>]

\* process_manga up to the call of download_chapters
ProcessManga(coverOutcome) ==
    /\ pm.pc = "start"
    /\ IF chapters = <<>>
       THEN \* "No chapters found"
            /\ coverOutcome = "none"
            /\ pm' = [pc |-> "done", called |-> FALSE, freshAtEntry |-> IsFresh(dirExists, files),
                      useLatest |-> FALSE, latest |-> NoLatest, is_fresh |-> FALSE,
                      plan |-> NoSelection, i |-> 0, chap_counter |-> 0, selected |-> {},
                      fetched |-> {}, written |-> {}, sleeps |-> 0,
                      last |-> [k |-> 0, what |-> "nothing"],
                      runNo |-> pm.runNo, prev |-> pm.prev]
            /\ UNCHANGED <<dirExists, files>>
       ELSE /\ coverOutcome \in CoverOutcomes(dirExists, files)
            /\ dirExists' = CoverDir(coverOutcome, dirExists)
            /\ files' = CoverFiles(coverOutcome, files)
            /\ LET is_fresh == IsFresh(dirExists', files')
                   selection == parse_chapter_arg(cfg.chapters)
                   useLatest == cfg.latest /\ selection.all
                   latest == IF useLatest
                             THEN get_latest_downloaded_chapter(SeriesTitle, dirExists', files')
                             ELSE NoLatest
                   plan == IF useLatest THEN PlanLatest(chapters, latest) ELSE selection
                   hist == [freshAtEntry |-> IsFresh(dirExists, files),
                            useLatest |-> useLatest, latest |-> latest,
                            is_fresh |-> is_fresh, plan |-> plan]
                   loop == [i |-> Len(chapters), chap_counter |-> 0, selected |-> {},
                            fetched |-> {}, written |-> {}, sleeps |-> 0,
                            last |-> [k |-> 0, what |-> "nothing"],
                            runNo |-> pm.runNo, prev |-> pm.prev]
               IN  IF useLatest /\ latest # NoLatest /\ plan.set = {}
                   THEN \* "No new chapters found"
                        pm' = [pc |-> "done", called |-> FALSE] @@ hist @@ loop
                   ELSE pm' = [pc |-> "chapters", called |-> TRUE] @@ hist @@ loop
    /\ UNCHANGED <<cfg, chapters, fetchVars, dedupVars, bulkVars, pathVars, toolVars>>

\* the results of the image jobs of a chapter, one per image URL: "ok",
\* "failed" before the file is opened, or "partial": failed while streaming,
\* which leaves the file behind
ImageJobResults ==
    UNION {[1..n -> {"ok", "failed", "partial"}] : n \in 0..MaxImages}

\* the i-th image URL of a chapter ends in <i>.jpg
ImageFile(i) == IntToStr(i) \o S_jpg

\* the listing of the chapter folder after the jobs
ChapterEntries(jobs) == {ImageFile(i) : i \in {k \in 1..Len(jobs) : jobs[k] # "failed"}}

\* what download_chapter_images does: the image-list request raises, or the
\* jobs of the listed images run to their results
ChapterFetches == {[raises |-> TRUE, jobs |-> <<>>]}
                  \cup {[raises |-> FALSE, jobs |-> js] : js \in ImageJobResults}

\* if is_fresh and chap_counter % self.config.rlc == 0
RateLimitDue_anyRun(is_fresh, chap_counter, rlc) == chap_counter % rlc = 0

RateLimitDue(is_fresh, chap_counter, rlc) == is_fresh /\ chap_counter % rlc = 0

\* the end of one pass of the loop of download_chapters
AfterChapter(p) ==
    LET c == p.chap_counter + 1
        slept == RateLimitDue(pm.is_fresh, c, cfg.rlc)
        q == [p EXCEPT !.chap_counter = c,
                       !.sleeps = IF slept THEN @ + 1 ELSE @,
                       !.i = @ - 1]
    IN  [q EXCEPT !.pc = IF q.i = 0 THEN "done" ELSE "chapters"]

\* one pass of the loop of download_chapters over reversed(chapters):
\* the plan filter, the zip-found skip, download_chapter_images,
\* archive_chapter and the rate limit
DownloadChapter(fetch) ==
    /\ pm.pc = "chapters"
    /\ LET k == pm.i
           jobs == fetch.jobs
           raises == fetch.raises
           chap_type == chapters[k][1]
           chap_num == chapters[k][2]
           skipPlan == ~Planned(pm.plan, chap_num)
           found == cfg.zip /\ chapter_already_downloaded(chap_num, dirExists, files)
           next == [pm EXCEPT !.i = @ - 1,
                              !.pc = IF pm.i = 1 THEN "done" ELSE "chapters"]
           before == [k |-> k, dirBefore |-> dirExists, filesBefore |-> files]
       IN  IF skipPlan
           THEN /\ jobs = <<>> /\ ~raises
                /\ pm' = [next EXCEPT !.last = before @@ [what |-> "unplanned"]]
                /\ UNCHANGED <<dirExists, files>>
           ELSE IF found
           THEN /\ jobs = <<>> /\ ~raises
                /\ pm' = [next EXCEPT !.selected = @ \cup {k},
                                      !.last = before @@ [what |-> "found"]]
                /\ UNCHANGED <<dirExists, files>>
           ELSE IF raises
           THEN \* the image-list request raises: the finally block runs,
                \* the exception leaves download_chapters and process_manga
                /\ jobs = <<>>
                /\ pm' = [pm EXCEPT !.pc = "raised",
                                    !.selected = @ \cup {k}, !.fetched = @ \cup {k},
                                    !.last = before @@ [what |-> "raised"]]
                /\ UNCHANGED <<dirExists, files>>
           ELSE IF jobs = <<>>
           THEN \* "No images found in chapter": download_chapter_images returns None
                /\ pm' = AfterChapter([pm EXCEPT !.selected = @ \cup {k},
                                                 !.fetched = @ \cup {k},
                                                 !.last = before @@ [what |-> "noimages"]])
                /\ UNCHANGED <<dirExists, files>>
           ELSE \* archive_chapter: makedirs(out_dir), has_images, write, rmtree
                LET archived == has_images(ChapterEntries(jobs))
                    name == ArchiveName(cfg.zip, SeriesTitle, chap_num, TypeSuffix(chap_type))
                    info == [what |-> "downloaded",
                             allFailed |-> \A i \in 1..Len(jobs) : jobs[i] # "ok",
                             partial |-> \E i \in 1..Len(jobs) : jobs[i] = "partial",
                             archived |-> archived]
                IN  /\ dirExists' = TRUE
                    /\ files' = IF archived THEN files \cup {name} ELSE files
                    /\ pm' = AfterChapter([pm EXCEPT
                                 !.selected = @ \cup {k},
                                 !.fetched = @ \cup {k},
                                 !.written = IF archived THEN @ \cup {name} ELSE @,
                                 !.last = before @@ info])
    /\ UNCHANGED <<cfg, chapters, fetchVars, dedupVars, bulkVars, pathVars, toolVars>>

\* the archive that archive_chapter writes for the k-th remote chapter
ChapterArchive(k) ==
    ArchiveName(cfg.zip, SeriesTitle, chapters[k][2], TypeSuffix(chapters[k][1]))

\* a LATEST_ONLY run has ended and the program is run again at once, with the
\* same configuration, on the same folder, against the same remote list
RunAgain ==
    /\ pm.pc = "done"
    /\ pm.runNo = 1
    /\ pm.useLatest
    /\ pm' = [pc |-> "start", runNo |-> 2,
              prev |-> << [selected |-> pm.selected, fetched |-> pm.fetched,
                           written |-> pm.written,
                           allArchived |-> \A k \in pm.fetched :
                                              ChapterArchive(k) \in pm.written] >>]
    /\ UNCHANGED <<cfg, chapters, dirExists, files, fetchVars, dedupVars, bulkVars, pathVars, toolVars>>

InitSync == SyncInit /\ FetchIdle /\ DedupIdle /\ BulkIdle /\ PathIdle /\ ToolsIdle

NextSync ==
    \/ \E coverOutcome \in {"skip", "none", "failed", "partial", "jpg", "webp"} :
         ProcessManga(coverOutcome)
    \/ \E fetch \in ChapterFetches : DownloadChapter(fetch)
    \/ RunAgain

SpecSync == InitSync /\ [][NextSync]_vars

\* the run has passed the planning step of process_manga
Planned_pc == pm.pc \in {"chapters", "done", "raised"}

ChapterNum(k) == chapters[k][2]

\* C2: a chapter whose image jobs all failed leaves no archive and neither
\* creates nor leaves an empty series folder: a folder that did not exist
\* before the chapter still does not exist, or is not empty.
C2_AllFailedLeavesNothing ==
    (Planned_pc /\ pm.last.what = "downloaded" /\ pm.last.allFailed) =>
        /\ ~pm.last.archived
        /\ ~pm.last.dirBefore => (~dirExists \/ files # {})

\* a file is the volume archive of chap_num, up to zero padding
IsVolumeArchiveOf(chap_num, f) ==
    /\ IsVolZip(f)
    /\ LStripChar(VolMiddle(f), "0")
         = LStripChar(VolMiddle(get_vol_and_chapter_names(chap_num)[1] \o S_zip), "0")

\* C5: in volume mode the already-downloaded check of a chapter answers true
\* exactly when the archive the name generator gives that chapter (up to zero
\* padding) is in the series folder.
C5_DetectorAgreesWithGenerator ==
    (Planned_pc /\ cfg.zip /\ pm.last.what \in {"found", "downloaded", "noimages", "raised"}) =>
        ((pm.last.what = "found") <=>
            (pm.last.dirBefore /\ \E f \in pm.last.filesBefore :
                 IsVolumeArchiveOf(ChapterNum(pm.last.k), f)))

\* C6: a LATEST_ONLY run with a local maximum L fetches exactly the remote
\* chapters whose number is greater than L.
C6_LatestOnlyFetchesNewer ==
    (pm.pc = "done" /\ pm.useLatest /\ pm.latest # NoLatest) =>
        pm.fetched = {k \in 1..Len(chapters) : Float(ChapterNum(k)) > pm.latest}

\* C7: a LATEST_ONLY run without a local maximum selects every remote chapter.
C7_FirstRunSelectsAll ==
    (pm.pc = "done" /\ pm.useLatest /\ pm.latest = NoLatest) =>
        pm.selected = 1..Len(chapters)

\* C8: with an explicit selector a remote chapter is fetched exactly when its
\* number equals, as a number, one of the requested numbers.
C8_ExplicitSelectorNumeric ==
    (pm.pc = "done" /\ ~parse_chapter_arg(cfg.chapters).all) =>
        pm.fetched = {k \in 1..Len(chapters) :
                        \E r \in parse_chapter_arg(cfg.chapters).set :
                            Float(r) = Float(ChapterNum(k))}

\* C9: when the series folder is absent or empty as process_manga is invoked,
\* download_chapters is called with is_fresh = TRUE.
C9_FreshnessFromEntryState ==
    (Planned_pc /\ pm.called /\ pm.freshAtEntry) => pm.is_fresh

\* C22: a pass of the loop of download_chapters takes a rate-limit sleep if
\* and only if is_fresh is true and the number of chapters downloaded so far
\* in this run, the one of this pass included, is a positive multiple of the
\* cadence; a chapter skipped by the plan or by the already-downloaded check
\* takes no sleep and does not count; no sleep is taken when is_fresh is false.
C22_RateLimitCadence ==
    [][pm.pc = "chapters" =>
         LET n == Cardinality(pm'.fetched)
             downloaded == pm'.last.what \in {"noimages", "downloaded"}
             due == downloaded /\ pm.is_fresh /\ n > 0 /\ n % cfg.rlc = 0
         IN  /\ pm'.sleeps = pm.sleeps + (IF due THEN 1 ELSE 0)
             /\ pm'.last.what \in {"unplanned", "found"} => pm'.fetched = pm.fetched
             /\ ~pm.is_fresh => pm'.sleeps = 0]_vars

C22_Witness ==
    /\ pm.pc = "done" /\ pm.called /\ pm.is_fresh
    /\ cfg.rlc = 2 /\ pm.sleeps = 1 /\ Cardinality(pm.fetched) = 2
    /\ pm.last.what = "downloaded"

\* C25: an archive written by archive_chapter holds only files of image jobs
\* that succeeded: when a job of the chapter failed while streaming to its
\* file, the chapter folder that is packed holds nothing of it.
C25_ArchiveOnlySucceeded ==
    (pm.pc \in {"chapters", "done"} /\ pm.last.what = "downloaded" /\ pm.last.archived)
        => ~pm.last.partial

\* C30: after a LATEST_ONLY run in which every chapter that was fetched
\* produced its archive, a LATEST_ONLY run that follows at once against the
\* same remote chapter list fetches the images of no chapter and writes no
\* archive, in zip mode and in cbz mode.
C30_LatestOnlyIdempotent ==
    (Planned_pc /\ pm.runNo = 2 /\ pm.prev[1].allArchived) =>
        /\ pm.fetched = {}
        /\ pm.written = {}

C30_Witness ==
    /\ pm.pc = "done" /\ pm.runNo = 2 /\ pm.called
    /\ pm.prev[1].allArchived /\ pm.prev[1].written # {}
    /\ ~cfg.zip /\ pm.fetched = {}

----------------------------------------------------------------------------
(* manga_utils.py (and its copy remove_duplicates.py): the duplicate curator *)

\* a series id as it names a cover file: 26 characters
SeriesId26 ==
    <<"0", "1", "J", "7", "6", "X", "Y", "H", "E", "W", "T", "D", "V",
      "A", "M", "W", "P", "M", "E", "Q", "S", "8", "9", "C", "3", "Y">>

\* inputs: folder names, cover files, modification times (seconds) and
\* archive listings of the folders of an archive root
FolderNamePool == { <<"o", "p">>, <<"O", "p">>, <<"o", "n", "e">> }

CoverPool == { CoverStem \o S_jpg, SeriesId26 \o S_webp }

MtimePool == {1, 2}

ArchiveSets ==
    SUBSET { S_vol \o <<"0", "0", "1">> \o S_zip, <<"o", "p", "-", "2">> \o S_cbz }

\* names get_english_title may return; <<>> is None
EnglishNamePool == { <<>>, <<"O", "n", "e">>, <<"o", "n", "e">> }

\* file.split('.')[0]
Stem(f) == IF Contains(f, ".") THEN SubSeq(f, 1, FirstIndex(f, ".") - 1) ELSE f

\* find_series_id on a folder's listing; <<>> is None
find_series_id(folder) ==
    IF (EndsWith(folder.cover, S_jpg) \/ EndsWith(folder.cover, S_webp))
       /\ Len(Stem(folder.cover)) = 26
    THEN Stem(folder.cover)
    ELSE <<>>

\* get_folder_priority, in millionths (the score adds mtime / 1000000)
ScoreUnit == 1000000

get_folder_priority(folder) ==
    (IF \E i \in 1..Len(folder.name) : folder.name[i] \in UpperChars THEN 100 ELSE 0) * ScoreUnit
    + Len(folder.name) * 2 * ScoreUnit
    + folder.mtime
    + Cardinality(folder.arch) * 10 * ScoreUnit

Live == {f \in DOMAIN root : root[f].alive}

\* find_duplicates: the identities borne by more than one folder, and the
\* folders of each in listdir order
Members(sid) == {f \in Live : find_series_id(root[f]) = sid}

DuplicateIds_single == {sid \in {find_series_id(root[f]) : f \in Live} : sid # <<>>}

DuplicateIds == {sid \in {find_series_id(root[f]) : f \in Live} :
                    sid # <<>> /\ Cardinality(Members(sid)) > 1}

\* folders.sort(key=priority, reverse=True): stable, highest first
SortedByPriority_lowestFirst(fs, priority) ==
    CHOOSE q \in [1..Cardinality(fs) -> fs] :
        /\ \A f \in fs : \E i \in DOMAIN q : q[i] = f
        /\ \A i, k \in DOMAIN q : i < k =>
             \/ priority[q[i]] < priority[q[k]]
             \/ priority[q[i]] = priority[q[k]] /\ q[i] < q[k]

SortedByPriority(fs, priority) ==
    CHOOSE q \in [1..Cardinality(fs) -> fs] :
        /\ \A f \in fs : \E i \in DOMAIN q : q[i] = f
        /\ \A i, k \in DOMAIN q : i < k =>
             \/ priority[q[i]] > priority[q[k]]
             \/ priority[q[i]] = priority[q[k]] /\ q[i] < q[k]

\* the order in which duplicates.items() yields the identities: by the first
\* folder bearing each
RECURSIVE IdOrder(_)
IdOrder(ids) ==
    IF ids = {} THEN <<>>
    ELSE LET first == CHOOSE sid \in ids :
                        \A other \in ids :
                            \E f \in Members(sid) : \A g \in Members(other) : f <= g
         IN  <<first>> \o IdOrder(ids \ {first})

\* merge_folders: the archives of remove_folder that keep_folder lacks are moved
MovedArchives_none(keepArch, removeArch) == {}

MovedArchives(keepArch, removeArch) == removeArch \ keepArch

DedupInit ==
    /\ \E n \in 0..MaxFolders :
         root \in {r \in [1..n -> [name : FolderNamePool, cover : CoverPool,
                                   mtime : MtimePool, arch : ArchiveSets,
                                   alive : {TRUE}]] :
                     \A i, k \in 1..n : i # k => r[i].name # r[k].name}
    /\ \E d \in BOOLEAN, e \in BOOLEAN :
         dd = [pc |-> "start", dry_run |-> d, use_english |-> e]

\* find_duplicates, with the priorities taken at scan time
Scan ==
    /\ dd.pc = "start"
    /\ LET ids == IdOrder(DuplicateIds)
           scanned == [before |-> root,
                       priority |-> [f \in DOMAIN root |-> get_folder_priority(root[f])],
                       ids |-> ids, g |-> 1, keep |-> 0, remove_list |-> <<>>, m |-> 1,
                       new_name |-> <<>>]
       IN  dd' = [pc |-> IF ids = <<>> THEN "done" ELSE "group"]
                 @@ scanned @@ dd
    /\ UNCHANGED <<root, fetchVars, syncVars, bulkVars, pathVars, toolVars>>

NextGroup(d) ==
    [d EXCEPT !.g = @ + 1, !.m = 1,
              !.pc = IF d.g = Len(d.ids) THEN "done" ELSE "group"]

\* "if not dry_run:" guarding the changes of the curator commands
MakesChanges_always(dry_run) == TRUE

MakesChanges(dry_run) == ~dry_run

\* the head of the loop body: sort, keep = folders[0], the English title
BeginGroup(english) ==
    /\ dd.pc = "group"
    /\ english \in (IF dd.use_english THEN EnglishNamePool ELSE {<<>>})
    /\ LET fs == {f \in DOMAIN root : find_series_id(dd.before[f]) = dd.ids[dd.g]}
           folders == SortedByPriority(fs, dd.priority)
           d == [dd EXCEPT !.keep = folders[1], !.remove_list = Tail(folders),
                           !.new_name = english, !.m = 1]
       IN  dd' = IF MakesChanges(dd.dry_run)
                 THEN [d EXCEPT !.pc = IF d.remove_list = <<>> THEN "rename" ELSE "merge"]
                 ELSE NextGroup(d)
    /\ UNCHANGED <<root, fetchVars, syncVars, bulkVars, pathVars, toolVars>>

\* merge_folders(keep, folder) for the next folder of remove_list
MergeFolder ==
    /\ dd.pc = "merge"
    /\ LET f == dd.remove_list[dd.m]
           moved == MovedArchives(root[dd.keep].arch, root[f].arch)
       IN  root' = [root EXCEPT ![dd.keep].arch = @ \cup moved,
                                ![f].arch = @ \ moved]
    /\ dd' = IF dd.m = Len(dd.remove_list)
             THEN [dd EXCEPT !.pc = "delete", !.m = 1]
             ELSE [dd EXCEPT !.m = @ + 1]
    /\ UNCHANGED <<fetchVars, syncVars, bulkVars, pathVars, toolVars>>

\* shutil.rmtree(folder['path']) for the next folder of remove_list
DeleteFolder ==
    /\ dd.pc = "delete"
    /\ root' = [root EXCEPT ![dd.remove_list[dd.m]].alive = FALSE,
                            ![dd.remove_list[dd.m]].arch = {}]
    /\ dd' = IF dd.m = Len(dd.remove_list)
             THEN [dd EXCEPT !.pc = "rename", !.m = 1]
             ELSE [dd EXCEPT !.m = @ + 1]
    /\ UNCHANGED <<fetchVars, syncVars, bulkVars, pathVars, toolVars>>

\* the rename to the English title, when asked for and free
RenameKept ==
    /\ dd.pc = "rename"
    /\ root' = IF /\ dd.use_english
                  /\ dd.new_name # <<>>
                  /\ dd.new_name # dd.before[dd.keep].name
                  /\ ~\E f \in Live : root[f].name = dd.new_name
               THEN [root EXCEPT ![dd.keep].name = dd.new_name]
               ELSE root
    /\ dd' = NextGroup(dd)
    /\ UNCHANGED <<fetchVars, syncVars, bulkVars, pathVars, toolVars>>

InitDedup == DedupInit /\ FetchIdle /\ SyncIdle /\ BulkIdle /\ PathIdle /\ ToolsIdle

NextDedup ==
    \/ Scan
    \/ \E english \in EnglishNamePool : BeginGroup(english)
    \/ MergeFolder
    \/ DeleteFolder
    \/ RenameKept

SpecDedup == InitDedup /\ [][NextDedup]_vars

Scanned == dd.pc \notin {"idle", "start"}

\* the folders sharing the identity sid before the pass
GroupBefore(sid) == {f \in DOMAIN root : find_series_id(dd.before[f]) = sid}

GroupIdsBefore ==
    {sid \in {find_series_id(dd.before[f]) : f \in DOMAIN root} :
        sid # <<>> /\ Cardinality(GroupBefore(sid)) > 1}

ArchivesBefore(sid) == UNION {dd.before[f].arch : f \in GroupBefore(sid)}

\* C3: deduplication loses no archive: a folder is deleted only when another
\* folder of its group that still exists holds every archive name it had, and
\* after a live pass each group has one folder left, which holds every archive
\* name any folder of the group had before the pass.
C3_NoArchiveLost ==
    Scanned =>
        /\ \A f \in DOMAIN root :
             ~root[f].alive =>
                 \E k \in GroupBefore(find_series_id(dd.before[f])) :
                     /\ root[k].alive
                     /\ dd.before[f].arch \subseteq root[k].arch
        /\ (dd.pc = "done" /\ ~dd.dry_run) =>
             \A sid \in GroupIdsBefore :
                 \E k \in GroupBefore(sid) :
                     /\ root[k].alive
                     /\ ArchivesBefore(sid) \subseteq root[k].arch
                     /\ \A f \in GroupBefore(sid) \ {k} : ~root[f].alive

C3_Witness ==
    /\ Scanned /\ dd.pc = "done" /\ ~dd.dry_run
    /\ \E k, f \in DOMAIN root :
         /\ root[k].alive /\ ~root[f].alive
         /\ dd.before[f].arch # {}
         /\ dd.before[f].arch \cap dd.before[k].arch = {}
         /\ dd.before[k].arch # {}
         /\ root[k].arch = dd.before[k].arch \cup dd.before[f].arch

\* the part of the score that depends on the folder name alone
NameScore(name) ==
    (IF \E i \in 1..Len(name) : name[i] \in UpperChars THEN 100 ELSE 0) + 2 * Len(name)

MoreAndNewer(a, b) ==
    /\ Cardinality(dd.before[a].arch) > Cardinality(dd.before[b].arch)
    /\ dd.before[a].mtime > dd.before[b].mtime

GroupChosen == Scanned /\ dd.keep # 0

\* C10: in a group of two folders the folder with more archive files and a
\* newer modification time is the one kept, whatever the two names.
C10_MoreAndNewerKept ==
    GroupChosen =>
        \A a, b \in {dd.keep} \cup {dd.remove_list[i] : i \in DOMAIN dd.remove_list} :
            (Len(dd.remove_list) = 1 /\ MoreAndNewer(a, b)) => dd.keep = a

\* C10 amended: ... provided its name does not score lower than the other's
\* (100 for an uppercase letter plus twice the length).
C10_MoreAndNewerKeptGivenName ==
    GroupChosen =>
        \A a, b \in {dd.keep} \cup {dd.remove_list[i] : i \in DOMAIN dd.remove_list} :
            (/\ Len(dd.remove_list) = 1
             /\ MoreAndNewer(a, b)
             /\ NameScore(dd.before[a].name) >= NameScore(dd.before[b].name)) => dd.keep = a

C10_Witness ==
    /\ GroupChosen /\ Len(dd.remove_list) = 1
    /\ MoreAndNewer(dd.keep, dd.remove_list[1])
    /\ NameScore(dd.before[dd.keep].name) >= NameScore(dd.before[dd.remove_list[1]].name)
    /\ dd.keep > dd.remove_list[1]

\* a second series id
SeriesId26b ==
    <<"0", "1", "J", "8", "A", "B", "C", "D", "E", "F", "G", "H", "J",
      "K", "M", "N", "P", "Q", "R", "S", "T", "V", "W", "X", "Y", "Z">>

\* roots of one folder more, where a group of duplicates stands beside a
\* folder without identity or with an identity of its own
BesideCoverPool == CoverPool \cup { SeriesId26b \o S_jpg }

BesideArchiveSets == { {}, {S_vol \o <<"0", "0", "1">> \o S_zip} }

BesideInit ==
    /\ \E n \in 0..(MaxFolders + 1) :
         root \in {r \in [1..n -> [name : FolderNamePool, cover : BesideCoverPool,
                                   mtime : MtimePool, arch : BesideArchiveSets,
                                   alive : {TRUE}]] :
                     \A i, k \in 1..n : i # k => r[i].name # r[k].name}
    /\ \E d \in BOOLEAN, e \in BOOLEAN :
         dd = [pc |-> "start", dry_run |-> d, use_english |-> e]

InitBeside == BesideInit /\ FetchIdle /\ SyncIdle /\ BulkIdle /\ PathIdle /\ ToolsIdle

SpecBeside == InitBeside /\ [][NextDedup]_vars

\* the folders that are no proven duplicates: no identity, or an identity
\* that no other folder of the root bore before the pass
Unproven ==
    {f \in DOMAIN root :
        \/ find_series_id(dd.before[f]) = <<>>
        \/ \A k \in DOMAIN root \ {f} :
              find_series_id(dd.before[k]) # find_series_id(dd.before[f])}

\* C24: remove-duplicates touches only proven duplicates: a folder without a
\* 26-character identity, and a folder that is alone with its identity, is
\* neither kept for a merge nor listed for removal, and stays as it was
\* (name, archives, existence), whatever other folders the root holds.
C24_OnlyProvenDuplicatesTouched ==
    Scanned =>
        \A f \in Unproven :
            /\ root[f] = dd.before[f]
            /\ dd.keep # f
            /\ \A i \in DOMAIN dd.remove_list : dd.remove_list[i] # f

C24_Witness ==
    /\ dd.pc = "done" /\ ~dd.dry_run /\ dd.use_english
    /\ \E f \in Unproven, g \in DOMAIN root :
         /\ ~root[g].alive
         /\ dd.new_name = root[f].name
         /\ root[dd.keep].name # dd.new_name

----------------------------------------------------------------------------
(* cli.py: process_bulk_mode                                               *)

\* lines a bulk file is made of
BulkLinePool ==
    { <<"I", "D", "=", "o", "p">>, <<"I", "D", "/", "o", "p">>, <<"o", "p">>, <<" ">> }

BulkFiles == UNION {[1..n -> BulkLinePool] : n \in 0..MaxBulk}

\* [line.strip() for line in f if line.strip()]
RECURSIVE StrippedLines(_)
StrippedLines(ls) ==
    IF ls = <<>> THEN <<>>
    ELSE (IF Strip(Head(ls)) # <<>> THEN <<Strip(Head(ls))>> ELSE <<>>)
         \o StrippedLines(Tail(ls))

\* the arguments process_manga is called with for a line; <<>> is None
EntryArgs(line) ==
    IF Contains(line, "=")
    THEN [series_id |-> Strip(SubSeq(line, 1, FirstIndex(line, "=") - 1)),
          title |-> Strip(SubSeq(line, FirstIndex(line, "=") + 1, Len(line)))]
    ELSE IF Contains(line, "/")
    THEN [series_id |-> Strip(SubSeq(line, 1, FirstIndex(line, "/") - 1)),
          title |-> Strip(SubSeq(line, FirstIndex(line, "/") + 1, Len(line)))]
    ELSE [series_id |-> <<>>, title |-> line]

\* how a call of process_manga ends: it returns (the series was processed,
\* skipped as not found, or had no chapters), or an exception leaves it: the
\* requests of get_series_id_from_query and fetch_chapter_list, float() of a
\* chapter number and the chapter loop are not guarded
ProcessMangaEnds == {"returned", "raised"}

BulkInit ==
    \E e \in BOOLEAN, ls \in BulkFiles :
        bulk = [pc |-> "start", fileExists |-> e, lines |-> ls, manga_list |-> <<>>,
                i |-> 1, calls |-> <<>>]

\* open(bulk_file) and the reading of its lines
OpenBulkFile ==
    /\ bulk.pc = "start"
    /\ bulk' = IF ~bulk.fileExists
               THEN \* except FileNotFoundError: sys.exit(1)
                    [bulk EXCEPT !.pc = "exit1"]
               ELSE LET ml == StrippedLines(bulk.lines)
                    IN  [bulk EXCEPT !.manga_list = ml,
                                     !.pc = IF ml = <<>> THEN "done" ELSE "loop"]
    /\ UNCHANGED <<fetchVars, syncVars, dedupVars, pathVars, toolVars>>

\* one pass of the loop over manga_list, inside the try block
ProcessEntry(ends) ==
    /\ bulk.pc = "loop"
    /\ LET call == EntryArgs(bulk.manga_list[bulk.i]) @@ [ends |-> ends]
           b == [bulk EXCEPT !.calls = Append(@, call), !.i = @ + 1]
       IN  bulk' = IF ends = "raised"
                   THEN \* except Exception: "Error reading bulk file", sys.exit(1)
                        [b EXCEPT !.pc = "exit1"]
                   ELSE [b EXCEPT !.pc = IF b.i > Len(b.manga_list) THEN "done" ELSE "loop"]
    /\ UNCHANGED <<fetchVars, syncVars, dedupVars, pathVars, toolVars>>

InitBulk == BulkInit /\ FetchIdle /\ SyncIdle /\ DedupIdle /\ PathIdle /\ ToolsIdle

NextBulk ==
    \/ OpenBulkFile
    \/ \E ends \in ProcessMangaEnds : ProcessEntry(ends)

SpecBulk == InitBulk /\ [][NextBulk]_vars

\* C4: a failure while one entry is processed does not abort the bulk run:
\* the run exits fatally only when the bulk file is missing, and otherwise it
\* ends having processed every entry of the file.
C4_BulkRunNotAborted ==
    /\ bulk.pc = "exit1" => ~bulk.fileExists
    /\ (bulk.pc \in {"done", "exit1"} /\ bulk.fileExists) =>
           Len(bulk.calls) = Len(StrippedLines(bulk.lines))

----------------------------------------------------------------------------
(* Archive naming against latest-chapter detection: archive_chapter writes *)
(* the archive of one chapter into an empty series folder, then            *)
(* get_latest_downloaded_chapter reads the folder                          *)

\* chapter numbers fetch_chapter_list can yield: the text [\d\.]+ matched in
\* a chapter title (such as "Chapter 12.5", "Chapter 12. End", "Vol.5 ...")
\* that float() accepts, since the list is sorted by float
IntParts == { <<>>, <<"0">>, <<"7">>, <<"1", "2">>, <<"0", "1", "2">> }

FracParts == { <<>>, <<".">>, <<".", "0">>, <<".", "5">>, <<".", "5", "0">>, <<".", "0", "5">> }

NumberPool ==
    {n \in {ip \o fp : ip \in IntParts, fp \in FracParts} :
        \E i \in 1..Len(n) : n[i] \in DigitChars}

NamingInit ==
    /\ \E n \in NumberPool, z \in BOOLEAN, t \in {S_Chapter, S_Episode} :
         nm = [pc |-> "chapter", n |-> n, zip |-> z, type |-> t,
               file |-> <<>>, latest |-> NoLatest]

\* archive_chapter(chapter_dir, series_title, chap_num, ct)
WriteArchive ==
    /\ nm.pc = "chapter"
    /\ nm' = [nm EXCEPT !.pc = "archived",
                        !.file = ArchiveName(nm.zip, SeriesTitle, nm.n, TypeSuffix(nm.type))]
    /\ UNCHANGED <<fetchVars, syncVars, dedupVars, bulkVars, pathVars, sz, qr, wt, lib, mt>>

\* get_latest_downloaded_chapter(series_title) on the folder holding the archive
DetectLatest ==
    /\ nm.pc = "archived"
    /\ nm' = [nm EXCEPT !.pc = "detected",
                        !.latest = get_latest_downloaded_chapter(SeriesTitle, TRUE, {nm.file})]
    /\ UNCHANGED <<fetchVars, syncVars, dedupVars, bulkVars, pathVars, sz, qr, wt, lib, mt>>

InitNaming ==
    /\ NamingInit
    /\ FetchIdle /\ SyncIdle /\ DedupIdle /\ BulkIdle /\ PathIdle
    /\ SanitizeIdle /\ QueryIdle /\ WatchIdle /\ CurateIdle

NextNaming ==
    \/ WriteArchive
    \/ DetectLatest

SpecNaming == InitNaming /\ [][NextNaming]_vars

\* C13: the archive name written for chapter number n is read back by
\* get_latest_downloaded_chapter as the numeric value of n, in both
\* packaging modes.
C13_NamingRoundTrips ==
    nm.pc = "detected" => nm.latest = Float(nm.n)

----------------------------------------------------------------------------
(* utils.py: sanitize_title                                                *)

\* characters of a title: ASCII ones, and "e'" (e with acute accent), "NBSP"
\* (no-break space), "FW-" (fullwidth hyphen-minus), "CJK" (an ideograph)
TitleChars == {" ", "-", "_", "a", "B", "7", "!", "e'", "NBSP", "FW-", "CJK"}

\* unicodedata.normalize("NFKD", c).encode("ascii", "ignore").decode()
NfkdAscii(c) ==
    CASE c = "e'" -> <<"e">>
      [] c = "NBSP" -> <<" ">>
      [] c = "FW-" -> <<"-">>
      [] c = "CJK" -> <<>>
      [] OTHER -> <<c>>

\* the class [A-Za-z0-9\-_]
AllowedChars ==
    DigitChars \cup UpperChars \cup {LowerSeq[k] : k \in 1..26} \cup {"-", "_"}

\* title.replace(" ", "-")
SpacesToHyphens(t) == [i \in 1..Len(t) |-> IF t[i] = " " THEN "-" ELSE t[i]]

RECURSIVE Normalize(_)
Normalize(t) == IF t = <<>> THEN <<>> ELSE NfkdAscii(Head(t)) \o Normalize(Tail(t))

\* re.sub(r"[^A-Za-z0-9\-_]", "", title)
RECURSIVE DropDisallowed(_)
DropDisallowed(t) ==
    IF t = <<>> THEN <<>>
    ELSE (IF Head(t) \in AllowedChars THEN <<Head(t)>> ELSE <<>>) \o DropDisallowed(Tail(t))

\* re.sub(r"-+", "-", title)
RECURSIVE CollapseHyphens(_)
CollapseHyphens(t) ==
    IF Len(t) < 2 THEN t
    ELSE IF t[1] = "-" /\ t[2] = "-" THEN CollapseHyphens(Tail(t))
    ELSE <<t[1]>> \o CollapseHyphens(Tail(t))

sanitize_title_stripFirst(title) ==
    CollapseHyphens(DropDisallowed(
        RStripChar(LStripChar(Normalize(SpacesToHyphens(title)), "-"), "-")))

sanitize_title(title) ==
    RStripChar(LStripChar(
        CollapseHyphens(DropDisallowed(Normalize(SpacesToHyphens(title)))), "-"), "-")

RECURSIVE Titles(_)
Titles(n) ==
    IF n = 0 THEN {<<>>}
    ELSE Titles(n - 1) \cup {Append(t, c) : t \in {u \in Titles(n - 1) : Len(u) = n - 1},
                                            c \in TitleChars}

SanitizeInit ==
    \E x \in Titles(MaxTitleLen) : sz = [pc |-> "title", x |-> x, once |-> <<>>, twice |-> <<>>]

SanitizeOnce ==
    /\ sz.pc = "title"
    /\ sz' = [sz EXCEPT !.pc = "once", !.once = sanitize_title(sz.x)]
    /\ UNCHANGED <<fetchVars, syncVars, dedupVars, bulkVars, pathVars, nm, qr, wt, lib, mt>>

SanitizeAgain ==
    /\ sz.pc = "once"
    /\ sz' = [sz EXCEPT !.pc = "twice", !.twice = sanitize_title(sz.once)]
    /\ UNCHANGED <<fetchVars, syncVars, dedupVars, bulkVars, pathVars, nm, qr, wt, lib, mt>>

InitSanitize ==
    /\ SanitizeInit
    /\ FetchIdle /\ SyncIdle /\ DedupIdle /\ BulkIdle /\ PathIdle
    /\ NamingIdle /\ QueryIdle /\ WatchIdle /\ CurateIdle

NextSanitize ==
    \/ SanitizeOnce
    \/ SanitizeAgain

SpecSanitize == InitSanitize /\ [][NextSanitize]_vars

\* C14: sanitize_title applied to its own output returns it unchanged, and
\* its output holds only characters of [A-Za-z0-9_-].
C14_SanitizeIdempotent ==
    /\ sz.pc \in {"once", "twice"} => \A i \in 1..Len(sz.once) : sz.once[i] \in AllowedChars
    /\ sz.pc = "twice" => sz.twice = sz.once

C14_Witness ==
    /\ sz.pc = "twice"
    /\ Len(sz.x) = 3 /\ sz.x[1] \in {"!", "CJK"} /\ sz.x[2] \in {" ", "FW-"} /\ sz.x[3] = "a"
    /\ sz.once = <<"a">>

----------------------------------------------------------------------------
(* downloader.py: get_series_id_from_query and the branch of process_manga *)
(* that calls it                                                           *)

\* the characters of a candidate link, in code point order (the order in
\* which sorted() compares strings)
CodeOrder == <<"/">> \o Digits \o UpperSeq \o LowerSeq

Code(c) == CHOOSE i \in 1..Len(CodeOrder) : CodeOrder[i] = c

\* s < t for str
RECURSIVE StrLess(_, _)
StrLess(s, t) ==
    IF t = <<>> THEN FALSE
    ELSE IF s = <<>> THEN TRUE
    ELSE IF s[1] = t[1] THEN StrLess(Tail(s), Tail(t))
    ELSE Code(s[1]) < Code(t[1])

\* "<series id>/<title>" as re.findall(r'/series/([^"/]+/[^"]+)') returns them
CandidatePool ==
    { <<"A", "/", "x">>, <<"A", "B", "/", "x">>, <<"a", "/", "x">>, <<"B", "/", "w">> }

SearchResponses == UNION {[1..n -> CandidatePool] : n \in 0..MaxResults}

\* sorted(list(set(results)))
SortedUnique_asListed(results) ==
    LET keep == {i \in DOMAIN results : \A k \in 1..(i - 1) : results[k] # results[i]}
    IN  CHOOSE q \in [1..Cardinality(keep) -> {results[i] : i \in keep}] :
            \A a, b \in keep : a < b =>
                \E x, y \in DOMAIN q : x < y /\ q[x] = results[a] /\ q[y] = results[b]

SortedUnique(results) ==
    LET us == {results[i] : i \in DOMAIN results}
    IN  CHOOSE q \in [1..Cardinality(us) -> us] :
            /\ \A u \in us : \E i \in DOMAIN q : q[i] = u
            /\ \A i, k \in DOMAIN q : i < k => StrLess(q[i], q[k])

\* unique_results[0].split("/")
SplitCandidate(c) ==
    [series_id |-> SubSeq(c, 1, FirstIndex(c, "/") - 1),
     series_title |-> SubSeq(c, FirstIndex(c, "/") + 1, Len(c))]

\* (None, None)
NoSeries == [series_id |-> <<>>, series_title |-> <<>>]

QueryInit ==
    \E rs \in SearchResponses, old \in 0..1 :
        qr = [pc |-> "query", results |-> rs,
              log |-> [i \in 1..old |-> [kind |-> "NOT FOUND", links |-> <<>>]],
              before |-> old, result |-> NoSeries, chapter_list_fetched |-> FALSE]

\* get_series_id_from_query: the candidates of the response, the line
\* appended to not_found.log, the pair returned
ResolveQuery ==
    /\ qr.pc = "query"
    /\ LET unique_results == SortedUnique(qr.results)
       IN  qr' = IF qr.results = <<>>
                 THEN [qr EXCEPT !.pc = "resolved",
                                 !.log = Append(@, [kind |-> "NOT FOUND", links |-> <<>>])]
                 ELSE [qr EXCEPT !.pc = "resolved",
                                 !.log = IF Len(unique_results) > 1
                                         THEN Append(@, [kind |-> "MULTIPLE UNIQUE",
                                                         links |-> unique_results])
                                         ELSE @,
                                 !.result = SplitCandidate(unique_results[1])]
    /\ UNCHANGED <<fetchVars, syncVars, dedupVars, bulkVars, pathVars, nm, sz, wt, lib, mt>>

\* process_manga: "Skipping ...: not found" and return, or fetch_chapter_list
ContinueProcessManga ==
    /\ qr.pc = "resolved"
    /\ qr' = IF qr.result.series_id = <<>>
             THEN [qr EXCEPT !.pc = "skipped"]
             ELSE [qr EXCEPT !.pc = "proceeds", !.chapter_list_fetched = TRUE]
    /\ UNCHANGED <<fetchVars, syncVars, dedupVars, bulkVars, pathVars, nm, sz, wt, lib, mt>>

InitQuery ==
    /\ QueryInit
    /\ FetchIdle /\ SyncIdle /\ DedupIdle /\ BulkIdle /\ PathIdle
    /\ NamingIdle /\ SanitizeIdle /\ WatchIdle /\ CurateIdle

NextQuery ==
    \/ ResolveQuery
    \/ ContinueProcessManga

SpecQuery == InitQuery /\ [][NextQuery]_vars

Candidates == {qr.results[i] : i \in DOMAIN qr.results}

\* C15: with no candidate the series is skipped, no chapter list is fetched
\* and exactly one NOT FOUND line is appended to not_found.log; with several
\* distinct candidates exactly one line listing them is appended and the run
\* proceeds with the lexicographically smallest one, whatever the order of
\* the candidates in the response.
C15_QueryResolution ==
    qr.pc \in {"resolved", "skipped", "proceeds"} =>
        /\ Candidates = {} =>
              /\ qr.pc # "proceeds" /\ ~qr.chapter_list_fetched
              /\ qr.result = NoSeries
              /\ Len(qr.log) = qr.before + 1
              /\ qr.log[Len(qr.log)].kind = "NOT FOUND"
        /\ Cardinality(Candidates) > 1 =>
              /\ qr.pc # "skipped"
              /\ Len(qr.log) = qr.before + 1
              /\ qr.log[Len(qr.log)].kind = "MULTIPLE UNIQUE"
              /\ {qr.log[Len(qr.log)].links[i] : i \in DOMAIN qr.log[Len(qr.log)].links}
                    = Candidates
              /\ \E c \in Candidates :
                    /\ \A o \in Candidates \ {c} : StrLess(c, o)
                    /\ qr.result = SplitCandidate(c)

C15_Witness ==
    /\ qr.pc = "proceeds" /\ qr.chapter_list_fetched
    /\ Len(qr.results) = 3
    /\ qr.results[1] = <<"a", "/", "x">> /\ qr.results[2] = <<"A", "B", "/", "x">>
    /\ qr.results[3] = <<"A", "/", "x">>
    /\ qr.result.series_id = <<"A">>
    /\ Len(qr.log) = qr.before + 1

----------------------------------------------------------------------------
(* watcher.py (and docker_runner.py, which has the same handlers):         *)
(* run_watcher, MangaListWatcher, ConfigWatcher                            *)

WatchInit ==
    \E me \in BOOLEAN, ce \in BOOLEAN :
        wt = [pc |-> "startup",
              manga |-> [exists |-> me, mtime |-> 1],
              config |-> [exists |-> ce, mtime |-> 1],
              manga_last |-> 0,       \* MangaListWatcher.last_modified
              config_last |-> 0,      \* ConfigWatcher.last_modified
              config_scheduled |-> FALSE,
              loaded |-> 0,           \* mtime of the config the loader holds
              events |-> <<>>,        \* modification events not yet dispatched
              runs |-> 0,             \* calls of process_file
              ran_at |-> [manga |-> 0, config |-> 0]]

\* process_file: build_command with the loaded config, subprocess.run
process_file(w) ==
    [w EXCEPT !.runs = @ + 1,
              !.ran_at = [manga |-> w.manga.mtime, config |-> w.config.mtime]]

\* run_watcher up to the initial manga_watcher.process_file(), which is under
\* way (subprocess.run) until the observer is started
Startup ==
    /\ wt.pc = "startup"
    /\ wt' = IF ~wt.manga.exists
             THEN [wt EXCEPT !.pc = "exit1"]
             ELSE LET made == [wt EXCEPT
                                 !.config_last = IF wt.config.exists THEN wt.config.mtime ELSE 0,
                                 !.loaded = IF wt.config.exists THEN wt.config.mtime ELSE 0,
                                 !.manga_last = wt.manga.mtime,
                                 !.config_scheduled = wt.config.exists,
                                 !.pc = "startup_run"]
                  IN  process_file(made)
    /\ UNCHANGED <<fetchVars, syncVars, dedupVars, bulkVars, pathVars, nm, sz, qr, lib, mt>>

\* the initial run has returned: observer.schedule(...), observer.start()
StartObserver ==
    /\ wt.pc = "startup_run"
    /\ wt' = [wt EXCEPT !.pc = "watching"]
    /\ UNCHANGED <<fetchVars, syncVars, dedupVars, bulkVars, pathVars, nm, sz, qr, lib, mt>>

\* the bulk list file is modified; the observer of its directory, once
\* started, queues the event
ModifyMangaList ==
    /\ wt.pc \in {"startup_run", "watching"}
    /\ wt.manga.mtime < MaxMtime
    /\ wt' = [wt EXCEPT !.manga.mtime = @ + 1,
                        !.events = IF wt.pc = "watching" THEN Append(@, "manga") ELSE @]
    /\ UNCHANGED <<fetchVars, syncVars, dedupVars, bulkVars, pathVars, nm, sz, qr, lib, mt>>

\* the config file is modified; the event is queued if its directory is observed
ModifyConfig ==
    /\ wt.pc = "watching"
    /\ wt.config.exists
    /\ wt.config.mtime < MaxMtime
    /\ wt' = [wt EXCEPT !.config.mtime = @ + 1,
                        !.events = IF wt.config_scheduled THEN Append(@, "config") ELSE @]
    /\ UNCHANGED <<fetchVars, syncVars, dedupVars, bulkVars, pathVars, nm, sz, qr, lib, mt>>

\* MangaListWatcher.on_modified for an event on the bulk list file
MangaListWatcher_on_modified(w) ==
    IF w.manga.mtime > w.manga_last
    THEN process_file([w EXCEPT !.manga_last = w.manga.mtime])
    ELSE w

\* ConfigWatcher.on_modified for an event on the config file
ConfigWatcher_on_modified(w) ==
    IF w.config.mtime > w.config_last
    THEN [w EXCEPT !.config_last = w.config.mtime, !.loaded = w.config.mtime]
    ELSE w

\* the observer thread dispatches the next event to the handler of its file
DispatchEvent ==
    /\ wt.pc = "watching"
    /\ wt.events # <<>>
    /\ LET w == [wt EXCEPT !.events = Tail(@)]
       IN  wt' = IF Head(wt.events) = "manga"
                 THEN MangaListWatcher_on_modified(w)
                 ELSE ConfigWatcher_on_modified(w)
    /\ UNCHANGED <<fetchVars, syncVars, dedupVars, bulkVars, pathVars, nm, sz, qr, lib, mt>>

InitWatch ==
    /\ WatchInit
    /\ FetchIdle /\ SyncIdle /\ DedupIdle /\ BulkIdle /\ PathIdle
    /\ NamingIdle /\ SanitizeIdle /\ QueryIdle /\ CurateIdle

NextWatch ==
    \/ Startup
    \/ StartObserver
    \/ ModifyMangaList
    \/ ModifyConfig
    \/ DispatchEvent

SpecWatch == InitWatch /\ [][NextWatch]_vars

\* C16: the bulk file is processed once on startup and again after every
\* change of the bulk list file and of the config file: once every event is
\* dispatched, the last processing is not older than the last change of
\* either file.
C16_RunAfterEveryChange ==
    (wt.pc = "watching" /\ wt.events = <<>>) =>
        /\ wt.runs >= 1
        /\ wt.ran_at.manga = wt.manga.mtime
        /\ wt.config.exists => wt.ran_at.config = wt.config.mtime

\* the initial run returns and the observer is started; the observer thread
\* goes on dispatching the events queued
WatchFairness == WF_vars(StartObserver) /\ WF_vars(DispatchEvent)

SpecWatchFair == SpecWatch /\ WatchFairness

\* C29: no change of the bulk list file is lost: every modification made
\* once the watcher process runs, also during the startup run or during a
\* triggered run, is eventually followed by a processing run that starts
\* after it.
C29_NoChangeLost ==
    \A t \in 2..MaxMtime :
        [](wt.pc \in {"startup_run", "watching"} /\ wt.manga.mtime = t
             => <>(wt.ran_at.manga >= t))

----------------------------------------------------------------------------
(* manga_utils.py: add_covers_to_archives_command (run twice in a row) and *)
(* rename_to_english_command over an archive root                          *)

S_cover_entry == <<"0", "0", "0", "-", "c", "o", "v", "e", "r">>

PageEntry == <<"1">> \o S_jpg

\* an archive of a folder: the entry names of the zip file in their order
\* (namelist()) and the bytes of each entry; "corrupt" when zipfile.ZipFile
\* cannot read it, "locked" when os.replace onto it fails. A zip file may
\* hold two entries of the same name.
ArchivePool ==
    { [entries |-> <<PageEntry>>, data |-> <<"p">>, state |-> "ok"],
      [entries |-> <<S_cover_entry \o S_jpg, PageEntry>>, data |-> <<"c", "p">>,
       state |-> "ok"],
      [entries |-> <<PageEntry, PageEntry>>, data |-> <<"p", "q">>, state |-> "ok"],
      [entries |-> <<>>, data |-> <<>>, state |-> "corrupt"],
      [entries |-> <<PageEntry>>, data |-> <<"p">>, state |-> "locked"] }

ArchiveLists == UNION {[1..n -> ArchivePool] : n \in 0..MaxArchives}

CurateNames == << <<"o", "p">>, <<"o", "n", "e">> , <<"O", "p">> >>

\* the roots add-covers is run on
CoverRoots ==
    UNION {[1..n -> [name : FolderNamePool, cover : CoverPool, arch : ArchiveLists]]
             : n \in 0..MaxCurated}

\* the roots rename-english is run on
RenameRoots ==
    UNION {[1..n -> [name : FolderNamePool, cover : CoverPool, arch : {<<>>}]]
             : n \in 0..MaxCurated}

DistinctNames(r) == \A i, k \in DOMAIN r : i # k => r[i].name # r[k].name

\* what the last pass did; tmp_left: the file of mkstemp still exists
NoStep == [had_cover |-> FALSE, mkstemp |-> FALSE, wrote |-> FALSE, tmp_left |-> FALSE]

CurateInit ==
    /\ \E cmd \in {"add-covers", "rename-english"} :
         /\ lib \in {r \in (IF cmd = "add-covers" THEN CoverRoots ELSE RenameRoots) :
                        /\ DistinctNames(r)
                        /\ cmd = "add-covers" => \A i \in DOMAIN r : r[i].name = CurateNames[i]}
         /\ \E d \in BOOLEAN :
              mt = [pc |-> cmd, dry_run |-> d, pass |-> 1, f |-> 1, a |-> 1,
                    before |-> lib, after1 |-> lib, mkstemps |-> 0,
                    changed |-> 0, skipped_count |-> 0, last |-> NoStep]

\* has_cover = any(f.startswith('000-cover') for f in existing_files)
HasCover_never(entries) == FALSE

HasCover(entries) == \E i \in 1..Len(entries) : StartsWith(entries[i], S_cover_entry)

\* os.path.splitext(cover_path)[1]
CoverExt(cover) == SubSeq(cover, LastIndex(cover, "."), Len(cover))

\* the archive rebuilt with the cover as its first entry
WithCover(entries, cover) == <<S_cover_entry \o CoverExt(cover)>> \o entries

\* old_zf.read(item): the bytes of the entry the name stands for, which is
\* the last entry of that name
ZipRead(entries, data, item) ==
    data[CHOOSE k \in 1..Len(entries) :
            entries[k] = item /\ \A j \in (k + 1)..Len(entries) : entries[j] # item]

\* the bytes of the cover file
CoverBytes == "c"

\* new_zf.write(cover_path, ...), then for item in old_zf.namelist():
\* new_zf.writestr(item, old_zf.read(item))
WithCoverData(entries, data) ==
    <<CoverBytes>> \o [i \in 1..Len(entries) |-> ZipRead(entries, data, entries[i])]

\* the loop position after the archive at (f, a)
AfterArchive(m) ==
    IF m.a >= Len(lib[m.f].arch) THEN [m EXCEPT !.f = @ + 1, !.a = 1]
    ELSE [m EXCEPT !.a = @ + 1]

\* one pass of the loops of add_covers_to_archives_command: a folder with no
\* cover image or no archive is skipped, else the next archive is handled
AddCoverStep ==
    /\ mt.pc = "add-covers"
    /\ mt.f <= Len(lib)
    /\ LET folder == lib[mt.f] IN
       IF find_series_id(folder) = <<>> \/ folder.arch = <<>>
       THEN /\ mt' = [mt EXCEPT !.f = @ + 1, !.a = 1, !.skipped_count = @ + 1,
                                !.last = NoStep]
            /\ UNCHANGED lib
       ELSE LET ar == folder.arch[mt.a] IN
            CASE ar.state = "corrupt" ->
                   \* zipfile.ZipFile(archive_path, 'r') raises
                   /\ mt' = [AfterArchive(mt) EXCEPT !.skipped_count = @ + 1, !.last = NoStep]
                   /\ UNCHANGED lib
              [] ar.state # "corrupt" /\ HasCover(ar.entries) ->
                   /\ mt' = [AfterArchive(mt) EXCEPT !.last = [NoStep EXCEPT !.had_cover = TRUE]]
                   /\ UNCHANGED lib
              [] ar.state # "corrupt" /\ ~HasCover(ar.entries) /\ ~MakesChanges(mt.dry_run) ->
                   /\ mt' = [AfterArchive(mt) EXCEPT !.changed = @ + 1, !.last = NoStep]
                   /\ UNCHANGED lib
              [] ar.state = "locked" /\ ~HasCover(ar.entries) /\ MakesChanges(mt.dry_run) ->
                   \* mkstemp, the copy is written, os.replace raises, the
                   \* temporary file is removed
                   /\ mt' = [AfterArchive(mt) EXCEPT !.mkstemps = @ + 1,
                                                     !.skipped_count = @ + 1,
                                                     !.last = [NoStep EXCEPT !.mkstemp = TRUE]]
                   /\ UNCHANGED lib
              [] ar.state = "ok" /\ ~HasCover(ar.entries) /\ MakesChanges(mt.dry_run) ->
                   /\ mt' = [AfterArchive(mt) EXCEPT !.mkstemps = @ + 1, !.changed = @ + 1,
                                                     !.last = [NoStep EXCEPT !.mkstemp = TRUE,
                                                                             !.wrote = TRUE]]
                   /\ lib' = [lib EXCEPT ![mt.f].arch[mt.a].entries =
                                              WithCover(ar.entries, folder.cover),
                                         ![mt.f].arch[mt.a].data =
                                              WithCoverData(ar.entries, ar.data)]
    /\ UNCHANGED <<fetchVars, syncVars, dedupVars, bulkVars, pathVars, nm, sz, qr, wt>>

\* the command returns; add-covers is then run a second time
EndPass ==
    /\ mt.pc \in {"add-covers", "rename-english"}
    /\ mt.f > Len(lib)
    /\ mt' = IF mt.pc = "add-covers" /\ mt.pass = 1
             THEN [mt EXCEPT !.pass = 2, !.f = 1, !.a = 1, !.after1 = lib, !.last = NoStep]
             ELSE [mt EXCEPT !.pc = "done", !.last = NoStep]
    /\ UNCHANGED <<lib, fetchVars, syncVars, dedupVars, bulkVars, pathVars, nm, sz, qr, wt>>

\* one pass of the loop of rename_to_english_command; get_english_title
\* raises, or returns None (<<>>) or a title
RenameStep(raises, english_title) ==
    /\ mt.pc = "rename-english"
    /\ mt.f <= Len(lib)
    /\ LET folder == lib[mt.f]
           skip == \/ find_series_id(folder) = <<>>
                   \/ raises
                   \/ english_title = <<>>
                   \/ english_title = folder.name
                   \/ \E k \in DOMAIN lib : lib[k].name = english_title
       IN  IF skip
           THEN /\ mt' = [mt EXCEPT !.f = @ + 1, !.skipped_count = @ + 1]
                /\ UNCHANGED lib
           ELSE /\ mt' = [mt EXCEPT !.f = @ + 1, !.changed = @ + 1]
                /\ lib' = IF MakesChanges(mt.dry_run)
                          THEN [lib EXCEPT ![mt.f].name = english_title]
                          ELSE lib
    /\ UNCHANGED <<fetchVars, syncVars, dedupVars, bulkVars, pathVars, nm, sz, qr, wt>>

InitCurate ==
    /\ \/ CurateInit /\ DedupIdle
       \/ DedupInit /\ CurateIdle
    /\ FetchIdle /\ SyncIdle /\ BulkIdle /\ PathIdle
    /\ NamingIdle /\ SanitizeIdle /\ QueryIdle /\ WatchIdle

NextCurate ==
    \/ AddCoverStep
    \/ EndPass
    \/ \E raises \in BOOLEAN, english_title \in EnglishNamePool :
         RenameStep(raises, english_title)
    \/ Scan
    \/ \E english \in EnglishNamePool : BeginGroup(english)
    \/ MergeFolder
    \/ DeleteFolder
    \/ RenameKept

SpecCurate == InitCurate /\ [][NextCurate]_vars

\* C11: add-covers leaves an archive that already holds the cover entry as it
\* is, making no temporary file and no write for it, and a second run of
\* add-covers leaves every archive of the root as the first run left it.
C11_AddCoversIdempotent ==
    /\ (mt.pc # "idle" /\ mt.last.had_cover) => (~mt.last.mkstemp /\ ~mt.last.wrote)
    /\ (mt.pc # "idle" /\ mt.pass = 2) => lib = mt.after1

C11_Witness ==
    /\ mt.pc = "done" /\ mt.pass = 2 /\ ~mt.dry_run
    /\ lib # mt.before /\ lib = mt.after1
    /\ \E f \in DOMAIN lib : \E a \in DOMAIN lib[f].arch :
         /\ ~HasCover(mt.before[f].arch[a].entries)
         /\ HasCover(lib[f].arch[a].entries)

\* C17: a dry run of remove-duplicates, add-covers or rename-english leaves
\* the archive root as it was: no folder deleted, merged or renamed, no
\* archive rewritten, no temporary file made.
C17_DryRunChangesNothing ==
    /\ (dd.pc \notin {"idle", "start"} /\ dd.dry_run) => root = dd.before
    /\ (mt.pc # "idle" /\ mt.dry_run) => (lib = mt.before /\ mt.mkstemps = 0)

C17_Witness ==
    /\ mt.pc = "done" /\ mt.dry_run /\ mt.pass = 2
    /\ mt.changed >= 2
    /\ lib = mt.before

\* C23: an archive that add-covers rewrites holds afterwards the cover entry
\* followed by every previous entry, in the previous order and with the
\* previous bytes; when a step before the replace fails, the archive is as it
\* was; no temporary file is left behind.
C23_RewritePreservesEntries ==
    [][mt.pc = "add-covers" =>
         /\ \A f \in DOMAIN lib : \A a \in DOMAIN lib[f].arch :
               LET old == lib[f].arch[a]
                   new == lib'[f].arch[a]
               IN  /\ new # old =>
                         /\ mt'.last.wrote
                         /\ StartsWith(Head(new.entries), S_cover_entry)
                         /\ Tail(new.entries) = old.entries
                         /\ Tail(new.data) = old.data
                   /\ (mt'.last.mkstemp /\ ~mt'.last.wrote) => new = old
         /\ ~mt'.last.tmp_left]_vars

----------------------------------------------------------------------------
(* downloader.py: the destination files of the image jobs of one chapter   *)

\* image URLs as the chapter page lists them: same file name under two
\* directories, a second file name, and a URL with a query string
UrlPool ==
    { <<"a", "/", "1">>, <<"b", "/", "1">>, <<"a", "/", "2">>,
      <<"a", "/", "1", "?", "v">> }

\* the lists of pairwise distinct URLs of a chapter
UrlLists ==
    UNION {{u \in [1..n -> UrlPool] : \A i, j \in 1..n : i # j => u[i] # u[j]}
             : n \in 1..MaxImages}

\* img_url.split("?")[0]
BeforeQuery(url) ==
    IF Contains(url, "?") THEN SubSeq(url, 1, FirstIndex(url, "?") - 1) ELSE url

\* os.path.basename
basename(path) ==
    IF Contains(path, "/") THEN SubSeq(path, LastIndex(path, "/") + 1, Len(path)) ELSE path

\* filename = os.path.basename(img_url.split("?")[0]); the file of the job
\* is os.path.join(dest_folder, filename)
Filename(img_url) == basename(BeforeQuery(img_url))

DestInit ==
    \E u \in UrlLists :
        dest = [pc |-> "download", urls |-> u,
                st |-> [i \in 1..Len(u) |-> "pending"], files |-> {}]

DestJobs == DOMAIN dest.urls

\* download_image up to the with block: the request raises and the job ends
\* Failed, or open(out_path, "wb") creates (or truncates) the file
OpenDestination(i, ok) ==
    /\ dest.pc = "download"
    /\ dest.st[i] = "pending"
    /\ dest' = IF ok
               THEN [dest EXCEPT !.st[i] = "streaming",
                                 !.files = @ \cup {Filename(dest.urls[i])}]
               ELSE [dest EXCEPT !.st[i] = "failed"]
    /\ UNCHANGED <<fetchVars, syncVars, dedupVars, bulkVars, toolVars, lg, ttl>>

\* the chunks are written and download_image returns out_path, or the stream
\* raises
EndStream(i, ok) ==
    /\ dest.pc = "download"
    /\ dest.st[i] = "streaming"
    /\ dest' = [dest EXCEPT !.st[i] = IF ok THEN "succeeded" ELSE "failed"]
    /\ UNCHANGED <<fetchVars, syncVars, dedupVars, bulkVars, toolVars, lg, ttl>>

\* every call of download_image has returned
JoinDestinations ==
    /\ dest.pc = "download"
    /\ \A i \in DestJobs : dest.st[i] \in {"succeeded", "failed"}
    /\ dest' = [dest EXCEPT !.pc = "joined"]
    /\ UNCHANGED <<fetchVars, syncVars, dedupVars, bulkVars, toolVars, lg, ttl>>

InitDest ==
    /\ DestInit /\ LegacyIdle /\ TitleIdle
    /\ FetchIdle /\ SyncIdle /\ DedupIdle /\ BulkIdle /\ ToolsIdle

NextDest ==
    \/ \E i \in DestJobs, ok \in BOOLEAN : OpenDestination(i, ok)
    \/ \E i \in DestJobs, ok \in BOOLEAN : EndStream(i, ok)
    \/ JoinDestinations

SpecDest == InitDest /\ [][NextDest]_vars

\* C26: the jobs of a chapter whose image URLs are pairwise distinct never
\* share a destination file: two jobs that have opened their files hold
\* different paths, and when every job succeeded the chapter folder holds as
\* many files as there are jobs.
C26_DistinctDestinations ==
    /\ \A i, j \in DestJobs :
         (i # j /\ dest.st[i] \in {"streaming", "succeeded"}
                /\ dest.st[j] \in {"streaming", "succeeded"})
            => Filename(dest.urls[i]) # Filename(dest.urls[j])
    /\ (dest.pc = "joined" /\ \A i \in DestJobs : dest.st[i] = "succeeded")
            => Cardinality(dest.files) = Len(dest.urls)

----------------------------------------------------------------------------
(* main.py: download_image of the single-file script                       *)

\* what a request does: resp.ok, a response with an error status (no
\* exception: raise_for_status is not called), an exception whose text is of
\* the connection-error class (or any exception for a "beacon" URL), another
\* exception
LegacyOutcomes == {"ok", "status", "transient", "other"}

LegacyInit ==
    \E m \in 1..MaxRetriesBound :
        lg = [pc |-> "loop", max_retries |-> m, retry_count |-> 0,
              requests |-> 0, sleeps |-> 0]

\* while retry_count < max_retries: resp = scraper.get(...)
LegacyRequest ==
    /\ lg.pc = "loop"
    /\ lg.retry_count < lg.max_retries
    /\ lg.requests < MaxLegacyRequests
    /\ lg' = [lg EXCEPT !.pc = "request", !.requests = @ + 1]
    /\ UNCHANGED <<fetchVars, syncVars, dedupVars, bulkVars, toolVars, dest, ttl>>

\* the rest of the pass of the loop
LegacyResponse(outcome) ==
    /\ lg.pc = "request"
    /\ lg' = CASE outcome = "ok" ->
                    \* the file is written; return
                    [lg EXCEPT !.pc = "returned"]
               [] outcome = "status" ->
                    \* if resp.ok is false the try block ends, nothing is
                    \* raised and retry_count is left as it is
                    [lg EXCEPT !.pc = "loop"]
               [] outcome = "transient" ->
                    [lg EXCEPT !.pc = "loop", !.sleeps = @ + 1, !.retry_count = @ + 1]
               [] OTHER ->
                    \* break
                    [lg EXCEPT !.pc = "gaveup"]
    /\ UNCHANGED <<fetchVars, syncVars, dedupVars, bulkVars, toolVars, dest, ttl>>

\* the loop condition fails: "[FAIL] Giving up"
LegacyGiveUp ==
    /\ lg.pc = "loop"
    /\ ~(lg.retry_count < lg.max_retries)
    /\ lg' = [lg EXCEPT !.pc = "gaveup"]
    /\ UNCHANGED <<fetchVars, syncVars, dedupVars, bulkVars, toolVars, dest, ttl>>

InitLegacy ==
    /\ LegacyInit /\ DestIdle /\ TitleIdle
    /\ FetchIdle /\ SyncIdle /\ DedupIdle /\ BulkIdle /\ ToolsIdle

NextLegacy ==
    \/ LegacyRequest
    \/ \E outcome \in LegacyOutcomes : LegacyResponse(outcome)
    \/ LegacyGiveUp

SpecLegacy == InitLegacy /\ [][NextLegacy]_vars

\* C27: download_image of main.py issues at most max_retries requests,
\* whatever the server answers, responses with an error status included.
C27_LegacyRequestsBounded ==
    lg.pc # "idle" => lg.requests <= lg.max_retries

----------------------------------------------------------------------------
(* downloader.py: the series folder of process_manga                       *)

\* str.strip(): white space, the no-break space included
RECURSIVE StripSpace(_)
StripSpace(t) ==
    IF t = <<>> THEN t
    ELSE IF Head(t) \in {" ", "NBSP"} THEN StripSpace(Tail(t))
    ELSE IF t[Len(t)] \in {" ", "NBSP"} THEN StripSpace(SubSeq(t, 1, Len(t) - 1))
    ELSE t

\* self.output_dir
OutputDir == <<"o", "u", "t">>

\* os.path.join(self.output_dir, series_title)
OutDir(series_title) == OutputDir \o <<"/">> \o series_title

\* what the request of the series page gives get_series_title_by_id: it
\* raises, the page holds no <h1>, or the text of the <h1> (never empty:
\* the pattern is ([^<]+))
SeriesPages ==
    {[kind |-> "raises", h1 |-> <<>>], [kind |-> "noh1", h1 |-> <<>>]}
    \cup {[kind |-> "h1", h1 |-> t] : t \in Titles(MaxH1Len) \ {<<>>}}

\* get_series_title_by_id
get_series_title_by_id(series_id, page) ==
    IF page.kind = "h1" THEN sanitize_title(StripSpace(page.h1)) ELSE series_id

\* process_manga is called with a series id and a title (a line
\* "id=title" of the bulk file) or with a series id alone (title <<>>)
TitleInit ==
    \E t \in Titles(MaxTitleLen) : ttl = [pc |-> "start", title |-> t]

\* the head of process_manga: series_title
ResolveSeriesTitle(page) ==
    /\ ttl.pc = "start"
    /\ IF ttl.title # <<>>
       THEN /\ page.kind = "noh1"
            /\ ttl' = [pc |-> "resolved", title |-> ttl.title, byId |-> FALSE,
                       series_title |-> sanitize_title(StripSpace(ttl.title))]
       ELSE ttl' = [pc |-> "resolved", title |-> ttl.title, byId |-> TRUE,
                    series_title |-> get_series_title_by_id(SeriesId26, page)]
    /\ UNCHANGED <<fetchVars, syncVars, dedupVars, bulkVars, toolVars, dest, lg>>

\* chapters were found: the cover and the archives go to out_dir
MakeOutDir ==
    /\ ttl.pc = "resolved"
    /\ ttl' = [ttl EXCEPT !.pc = "out_dir"] @@ [out_dir |-> OutDir(ttl.series_title)]
    /\ UNCHANGED <<fetchVars, syncVars, dedupVars, bulkVars, toolVars, dest, lg>>

InitTitle ==
    /\ TitleInit /\ DestIdle /\ LegacyIdle
    /\ FetchIdle /\ SyncIdle /\ DedupIdle /\ BulkIdle /\ ToolsIdle

NextTitle ==
    \/ \E page \in SeriesPages : ResolveSeriesTitle(page)
    \/ MakeOutDir

SpecTitle == InitTitle /\ [][NextTitle]_vars

\* C28: the series_title that process_manga builds the output path with is
\* never empty, so that out_dir is a proper subdirectory of the output root.
C28_SeriesFolderBelowRoot ==
    ttl.pc = "out_dir" =>
        /\ ttl.series_title # <<>>
        /\ RStripChar(ttl.out_dir, "/") # OutputDir

====
